---- MODULE Spec2Model ----
(***************************************************************************)
(* A model of gucli's backend: the bounded process executor                *)
(* (execute_command), its caller run_command / run_test, the line-limited  *)
(* log writer (LineLimitedFile::write) and the command document            *)
(* (set_config / load_commands / save_commands), and of its settings       *)
(* window (app.rs): the rows of the commands table, save, reset, the title *)
(* bar.                                                                    *)
(*                                                                         *)
(* Text is a sequence of tokens.  "nl" is a line feed, "sp" a space, "bad" *)
(* a byte sequence that is not valid UTF-8, "rep" the replacement          *)
(* character U+FFFD, "bq" a backquote; every other token is a run of text  *)
(* that holds no line feed and neither starts nor ends with white space.   *)
(* Carriage returns are not part of the alphabet.                          *)
(* Time is in milliseconds since the Instant taken after the spawn.        *)
(***************************************************************************)
EXTENDS Integers, Sequences, FiniteSets, TLC

VARIABLES
    pc,         \* position of the thread inside run_command / execute_command
    caller,     \* "tray" (on_menu_event) or "run_test" (tauri command)
    cmd,        \* the command string handed to run_command
    sn,         \* the sn flag handed to run_command
    child,      \* what the spawned `sh -c cmd` does (its behaviour)
    childState, \* "none" | "running" | "killed" | "reaped" | "gone"
    now,        \* start.elapsed() in ms
    killedAt,   \* elapsed ms at which child.kill() was sent, -1 before
    result,     \* what execute_command returned
    message,    \* run_command's display message
    events,     \* the log appends and notifications run_command made, in order
    ret,        \* what run_command / run_test handed back to its caller
    retAt,      \* elapsed ms at which execute_command returned, -1 before
    notifier,   \* whether send_notification found notify-send
    logFile,    \* the log file: [exists, content]
    wr,         \* the writers of the concurrent log model, per thread
    cfgFile,    \* the command document on disk
    loaded,     \* what load_commands returned for the document as it is now
    reg,        \* the last set_commands / set_config / reset_commands call
    app,        \* run(): how far the start of the application got
    man,        \* one call of get_man
    lw,         \* the last call of LineLimitedFile::write, taken as a whole
    ui          \* the settings window: its signals and the commands it invoked

vars == <<pc, caller, cmd, sn, child, childState, now, killedAt, result, message,
          events, ret, retAt, notifier, logFile, wr, cfgFile, loaded, reg, app, man,
          lw, ui>>

execVars == <<pc, caller, cmd, sn, child, childState, now, killedAt, result,
              message, events, ret, retAt, notifier>>

----------------------------------------------------------------------------
(* Bounds of the model *)

\* thread::sleep returns after at least the asked duration: the most it runs over, in ms
MaxOvershoot == 1

(* Program constants *)

\* timeout_secs = 0.5
TimeoutMs == 500
\* check_interval
CheckIntervalMs == 100
\* the sleep between child.kill() and child.wait()
GraceMs == 100
\* LineLimitedWriter::new(log_path, 100)
max_lines == 100

----------------------------------------------------------------------------
(* Text *)

IsWhite(t) == t \in {"nl", "sp"}

Last(s) == s[Len(s)]
Front(s) == SubSeq(s, 1, Len(s) - 1)

\* String::from_utf8_lossy: invalid bytes become U+FFFD
from_utf8_lossy(bytes) ==
    [i \in 1..Len(bytes) |-> IF bytes[i] = "bad" THEN "rep" ELSE bytes[i]]

\* str::replace("\n", " ")
replace_nl(s) == [i \in 1..Len(s) |-> IF s[i] = "nl" THEN "sp" ELSE s[i]]

\* str::trim: what lies between the first and the last token that is not
\* white space
trim(s) ==
    LET solid == {i \in 1..Len(s) : ~IsWhite(s[i])}
    IN  IF solid = {} THEN <<>>
        ELSE SubSeq(s, CHOOSE i \in solid : \A j \in solid : i <= j,
                       CHOOSE i \in solid : \A j \in solid : i >= j)

\* the pieces of s[lo..hi] between line feeds: one more than there are line
\* feeds (halving the range keeps the recursion shallow)
RECURSIVE SplitNl(_, _, _)
SplitNl(s, lo, hi) ==
    IF lo > hi THEN << <<>> >>
    ELSE IF lo = hi THEN (IF s[lo] = "nl" THEN << <<>>, <<>> >> ELSE << <<s[lo]>> >>)
    ELSE LET mid == (lo + hi) \div 2
             a == SplitNl(s, lo, mid)
             b == SplitNl(s, mid + 1, hi)
         IN  Front(a) \o << Last(a) \o Head(b) >> \o Tail(b)

\* str::lines: split at line feeds, a final empty line is not a line
lines(s) ==
    LET segs == SplitNl(s, 1, Len(s))
    IN  IF Last(segs) = <<>> THEN Front(segs) ELSE segs

RECURSIVE JoinRange(_, _, _)
JoinRange(ls, lo, hi) ==
    IF lo > hi THEN <<>>
    ELSE IF lo = hi THEN ls[lo]
    ELSE LET mid == (lo + hi) \div 2
         IN  JoinRange(ls, lo, mid) \o <<"nl">> \o JoinRange(ls, mid + 1, hi)

\* [&str]::join("\n")
join(ls) == JoinRange(ls, 1, Len(ls))

Contains(s, t) == \E i \in 1..Len(s) : s[i] = t

\* str::find('\n'): the index of the first line feed, 0 when there is none
find_nl(s) ==
    LET at == {i \in 1..Len(s) : s[i] = "nl"}
    IN  IF at = {} THEN 0 ELSE CHOOSE i \in at : \A j \in at : i <= j

\* the tokens that stand for a run of more than one character, with the
\* number of characters of each (every other token is one character);
\* "ioerr" is the text of an io::Error, taken as "No such file or directory
\* (os error 2)"
Run ==
    [t \in {"Ok( Command", "Err( Command", "executed ), Result:", "failed ), Error:",
            "Failed to spawn process:", "Error waiting for process:",
            "Failed to get output:", "ioerr",
            "Command timed out after 0.5 seconds", "...",
            "x48", "x10000", "x70000", "lo", "README", "--all", "https://h/"} |->
        CASE t = "Ok( Command" -> 11
          [] t = "Err( Command" -> 12
          [] t = "executed ), Result:" -> 19
          [] t = "failed ), Error:" -> 16
          [] t = "Failed to spawn process:" -> 24
          [] t = "Error waiting for process:" -> 26
          [] t = "Failed to get output:" -> 21
          [] t = "ioerr" -> 38
          [] t = "Command timed out after 0.5 seconds" -> 35
          [] t = "x48" -> 48
          [] t = "x10000" -> 10000
          [] t = "x70000" -> 70000
          [] t = "lo" -> 2
          [] t = "README" -> 6
          [] t = "--all" -> 5
          [] t = "https://h/" -> 10
          [] OTHER -> 3]

\* the number of chars of one token ("x48", "x10000" and "x70000" are runs of
\* 48, of 10000 and of 70000 lower-case letters)
token_chars(t) == IF t \in DOMAIN Run THEN Run[t] ELSE 1

\* str::chars().count() of s[lo..hi]
RECURSIVE CountRange(_, _, _)
CountRange(s, lo, hi) ==
    IF lo > hi THEN 0
    ELSE IF lo = hi THEN token_chars(s[lo])
    ELSE LET mid == (lo + hi) \div 2
         IN  CountRange(s, lo, mid) + CountRange(s, mid + 1, hi)

chars_count(s) == CountRange(s, 1, Len(s))

\* the number of bytes of one token: U+FFFD takes three
token_len(t) == IF t = "rep" THEN 3 ELSE token_chars(t)

\* str::len(), in bytes
RECURSIVE str_len(_)
str_len(s) == IF s = <<>> THEN 0 ELSE token_len(Head(s)) + str_len(Tail(s))

\* how many tokens of s[lo..hi] lie wholly within its first n chars
RECURSIVE TakeRange(_, _, _, _)
TakeRange(s, lo, hi, n) ==
    IF lo > hi THEN 0
    ELSE IF lo = hi THEN (IF token_chars(s[lo]) <= n THEN 1 ELSE 0)
    ELSE LET mid == (lo + hi) \div 2
             left == CountRange(s, lo, mid)
         IN  IF left <= n
             THEN (mid - lo + 1) + TakeRange(s, mid + 1, hi, n - left)
             ELSE TakeRange(s, lo, mid, n)

\* str::chars().take(n).collect(): the first n chars of s.  (In the texts of
\* this model a cut at n never falls inside a run: what lies past the first
\* n chars of a long text is made of one-character tokens.)
chars_take(s, n) == SubSeq(s, 1, TakeRange(s, 1, Len(s), n))

----------------------------------------------------------------------------
(* The inputs: commands and what their child process does *)

Commands == { <<"c">>, <<"c", "nl", "d">> }

\* bytes the child writes to its stdout / stderr
\* how many characters the longest output of the model has
MaxOutput == 205

\* one line of output that is longer than a notification body may be
LongOutput == [i \in 1..MaxOutput |-> "o"]

\* one line of output that is larger than a pipe
HugeOutput == <<"x70000", "nl">>

StdoutSet == { <<>>, <<"o", "nl", "bad", "nl">>, LongOutput, HugeOutput }
StderrSet == { <<>>, <<"e", "nl", "f", "nl">> }

\* elapsed ms at which the direct child exits on its own: at once, between
\* two polls, and after the last poll that the loop makes before the timeout
\* (a child that would exit later than the timeout is killed first, like one
\* that never exits)
ExitTimes == {0, 250, 450}
\* elapsed ms until which a background descendant keeps the captured pipes
\* open (0: there is none); 10000 is `sleep 10 &`
HoldTimes == {0, 10000}

NoChild ==
    [spawns |-> FALSE, exits |-> FALSE, exitAt |-> 0, success |-> FALSE,
     out |-> <<>>, err |-> <<>>, holdUntil |-> 0]

ChildBehaviours ==
    {NoChild}
    \cup { [spawns |-> TRUE, exits |-> FALSE, exitAt |-> 0, success |-> FALSE,
            out |-> o, err |-> e, holdUntil |-> 0] :
           o \in StdoutSet, e \in StderrSet }
    \cup [spawns : {TRUE}, exits : {TRUE}, exitAt : ExitTimes, success : BOOLEAN,
          out : StdoutSet, err : StderrSet, holdUntil : HoldTimes]

\* Stdio::piped(): how many bytes a pipe holds before a write to it blocks
\* (Linux: 16 pages of 4096 bytes)
PipeCapacity == 65536

\* the bytes of raw output ("bad" is one byte)
output_bytes(bytes) == chars_count(bytes)

\* the child has more to write to a captured pipe than the pipe holds: nothing
\* reads the pipes before wait_with_output, so its write blocks and it does
\* not get to exit
PipeFull ==
    output_bytes(child.out) > PipeCapacity \/ output_bytes(child.err) > PipeCapacity

\* the direct child has exited on its own by elapsed time t
ChildExited(t) == child.spawns /\ child.exits /\ ~PipeFull /\ child.exitAt <= t

Max(a, b) == IF a >= b THEN a ELSE b
Min(a, b) == IF a <= b THEN a ELSE b

----------------------------------------------------------------------------
(* execute_command *)

Ok(text) == [ok |-> TRUE, text |-> text]
Err(text) == [ok |-> FALSE, text |-> text]
None == [ok |-> FALSE, text |-> <<"none">>]

\* format!("Failed to spawn process: {}", e)
SpawnFailure == Err(<<"Failed to spawn process:", "sp", "ioerr">>)

\* format!("Error waiting for process: {}", e)
TryWaitFailure == Err(<<"Error waiting for process:", "sp", "ioerr">>)

\* format!("Failed to get output: {}", e)
CollectFailure == Err(<<"Failed to get output:", "sp", "ioerr">>)

\* faulty variant: a failed command comes back with its stdout
ExitOutcome_stdout_on_failure(success, out, err) ==
    IF success THEN Ok(from_utf8_lossy(out)) ELSE Err(from_utf8_lossy(out))

\* the value returned once try_wait reported the exit and the output was read
ExitOutcome(success, out, err) ==
    IF success THEN Ok(from_utf8_lossy(out)) ELSE Err(from_utf8_lossy(err))

TimeoutNotice == <<"Command timed out after 0.5 seconds">>

\* faulty variant: the notice is followed by what the child wrote to stderr
TimeoutOutcome_with_stderr(out, err) == Err(TimeoutNotice \o from_utf8_lossy(err))

\* the value returned after the kill; out and err are what the child wrote
TimeoutOutcome(out, err) == Err(TimeoutNotice)

\* Command::new("sh"): the program that execute_command runs the command
\* with, whatever the command
execute_command_program == "sh"

\* Command::new("sh").arg("-c").arg(command)...spawn()
execute_command_spawn ==
    /\ pc = "spawn"
    /\ \E b \in ChildBehaviours :
        /\ child' = b
        /\ IF b.spawns
           THEN /\ childState' = "running"
                /\ pc' = "loop"
                /\ UNCHANGED <<result, retAt>>
           ELSE /\ childState' = "none"
                /\ result' = SpawnFailure
                /\ retAt' = 0
                /\ pc' = "log"
    /\ now' = 0
    /\ UNCHANGED <<caller, cmd, sn, killedAt, message, events, ret, notifier,
                   logFile, wr, cfgFile, loaded, reg, app, man, lw, ui>>

\* faulty variant: the loop goes on while start.elapsed() <= timeout
execute_command_loop_inclusive ==
    /\ pc = "loop"
    /\ pc' = IF now <= TimeoutMs THEN "try_wait" ELSE "kill"
    /\ UNCHANGED <<caller, cmd, sn, child, childState, now, killedAt, result,
                   message, events, ret, retAt, notifier, logFile, wr, cfgFile,
                   loaded, reg, app, man, lw, ui>>

\* while start.elapsed() < timeout
execute_command_loop ==
    /\ pc = "loop"
    /\ pc' = IF now < TimeoutMs THEN "try_wait" ELSE "kill"
    /\ UNCHANGED <<caller, cmd, sn, child, childState, now, killedAt, result,
                   message, events, ret, retAt, notifier, logFile, wr, cfgFile,
                   loaded, reg, app, man, lw, ui>>

\* match child.try_wait(): waitpid(WNOHANG) can fail only for a child that is
\* gone (ECHILD: it exited and was reaped by another wait of the process, or
\* by the kernel when SIGCHLD is ignored)
execute_command_try_wait ==
    /\ pc = "try_wait"
    /\ \E fails \in BOOLEAN :
        IF ChildExited(now)
        THEN IF fails
             THEN /\ result' = TryWaitFailure
                  /\ retAt' = now
                  /\ pc' = "log"
                  /\ childState' = "gone"
             ELSE /\ childState' = "reaped"
                  /\ pc' = "collect"
                  /\ UNCHANGED <<result, retAt>>
        ELSE /\ ~fails
             /\ pc' = "sleep"
             /\ UNCHANGED <<childState, result, retAt>>
    /\ UNCHANGED <<caller, cmd, sn, child, now, killedAt, message, events, ret,
                   notifier, logFile, wr, cfgFile, loaded, reg, app, man, lw, ui>>

\* thread::sleep(check_interval)
execute_command_sleep ==
    /\ pc = "sleep"
    /\ \E over \in 0..MaxOvershoot : now' = now + CheckIntervalMs + over
    /\ pc' = "loop"
    /\ UNCHANGED <<caller, cmd, sn, child, childState, killedAt, result, message,
                   events, ret, retAt, notifier, logFile, wr, cfgFile, loaded, reg, app, man, lw, ui>>

\* child.wait_with_output(): reads stdout and stderr to end of file, which
\* comes when every process holding the pipes' write ends has closed them
execute_command_collect ==
    /\ pc = "collect"
    /\ \E fails \in BOOLEAN :
        IF fails
        THEN /\ result' = CollectFailure
             /\ now' = now
        ELSE /\ result' = ExitOutcome(child.success, child.out, child.err)
             /\ now' = Max(now, child.holdUntil)
    /\ retAt' = now'
    /\ pc' = "log"
    /\ UNCHANGED <<caller, cmd, sn, child, childState, killedAt, message, events,
                   ret, notifier, logFile, wr, cfgFile, loaded, reg, app, man, lw, ui>>

\* let _ = child.kill()
execute_command_kill ==
    /\ pc = "kill"
    /\ killedAt' = now
    /\ childState' = "killed"
    /\ pc' = "grace"
    /\ UNCHANGED <<caller, cmd, sn, child, now, result, message, events, ret,
                   retAt, notifier, logFile, wr, cfgFile, loaded, reg, app, man, lw, ui>>

\* thread::sleep(Duration::from_millis(100))
execute_command_grace ==
    /\ pc = "grace"
    /\ \E over \in 0..MaxOvershoot : now' = now + GraceMs + over
    /\ pc' = "wait"
    /\ UNCHANGED <<caller, cmd, sn, child, childState, killedAt, result, message,
                   events, ret, retAt, notifier, logFile, wr, cfgFile, loaded, reg, app, man, lw, ui>>

\* faulty variant: the call returns after the grace period without child.wait()
execute_command_wait_skipped ==
    /\ pc = "wait"
    /\ result' = TimeoutOutcome(child.out, child.err)
    /\ retAt' = now
    /\ pc' = "log"
    /\ UNCHANGED <<caller, cmd, sn, child, childState, now, killedAt, message, events,
                   ret, notifier, logFile, wr, cfgFile, loaded, reg, app, man, lw, ui>>

\* let _ = child.wait(); Err(format!("Command timed out after {} seconds", ..))
execute_command_wait ==
    /\ pc = "wait"
    /\ childState' = "reaped"
    /\ result' = TimeoutOutcome(child.out, child.err)
    /\ retAt' = now
    /\ pc' = "log"
    /\ UNCHANGED <<caller, cmd, sn, child, now, killedAt, message, events, ret,
                   notifier, logFile, wr, cfgFile, loaded, reg, app, man, lw, ui>>

execute_command ==
    \/ execute_command_spawn
    \/ execute_command_loop
    \/ execute_command_try_wait
    \/ execute_command_sleep
    \/ execute_command_collect
    \/ execute_command_kill
    \/ execute_command_grace
    \/ execute_command_wait

----------------------------------------------------------------------------
(* LineLimitedFile::write, the log writer *)

AbsentFile == [exists |-> FALSE, content |-> <<>>]
File(content) == [exists |-> TRUE, content |-> content]

\* String::from_utf8_lossy(buf).trim().to_string()
write_message(buf) == trim(from_utf8_lossy(buf))

\* the text read from the file (nothing when it does not exist)
write_read(file) == IF file.exists THEN file.content ELSE <<>>

\* content, a line feed if it is not empty, and the message
write_content(old, msg) ==
    (IF old # <<>> THEN old \o <<"nl">> ELSE old) \o msg

\* faulty variant: one line, the oldest, is dropped when there are too many
write_truncated_remove_first(content) ==
    LET ls == lines(content)
    IN  IF Len(ls) > max_lines
        THEN join(SubSeq(ls, 2, Len(ls)))
        ELSE content

\* the last max_lines lines of content when it has more, else content
write_truncated(content) ==
    LET ls == lines(content)
    IN  IF Len(ls) > max_lines
        THEN join(SubSeq(ls, Len(ls) - max_lines + 1, Len(ls)))
        ELSE content

\* one whole write, nothing else touching the file meanwhile
LineLimitedFile_write(file, buf) ==
    File(write_truncated(write_content(write_read(file), write_message(buf))))

\* what the file system calls of one write do: all succeed, the file cannot be
\* read (fs::read_to_string), cannot be opened for writing, or is cut to
\* nothing and then not written (fs::write)
LogIoOutcomes == {"ok", "read_fails", "open_fails", "write_fails"}

\* the outcomes a write to this file can have: only a file that is there is read
LogIo(file) ==
    IF file.exists THEN LogIoOutcomes ELSE LogIoOutcomes \ {"read_fails"}

\* the file after one whole write whose file system calls went as io says;
\* on a failure write returns the io::Error, which the subscriber's fmt layer
\* drops: the info! / error! that logged the event returns as ever
LineLimitedFile_write_io(file, buf, io) ==
    CASE io = "ok" -> LineLimitedFile_write(file, buf)
      [] io \in {"read_fails", "open_fails"} -> file
      [] OTHER -> File(<<>>)

\* the event as tracing's compact format hands it to the writer:
\* timestamp, level, message, line feed
format_event(level, text) == <<"ts", "sp", level, "sp">> \o text \o <<"nl">>

----------------------------------------------------------------------------
(* run_command and run_test *)

\* (is_success, message) = match &result
format_message(r, c) ==
    IF r.ok
    THEN <<"Ok( Command", "sp", "bq">> \o c \o <<"bq", "sp", "executed ), Result:", "nl", "sp">> \o r.text
    ELSE <<"Err( Command", "sp", "bq">> \o c \o <<"bq", "sp", "failed ), Error:", "nl", "sp">> \o r.text

\* the info! / error! event of the "push to log" match
log_record(r, c) ==
    IF r.ok
    THEN format_event("INFO",
            <<"Command", "sp", "bq">> \o c \o <<"bq", "sp", "executed, Result:", "sp">> \o replace_nl(r.text))
    ELSE format_event("ERROR",
            <<"Command", "sp", "bq">> \o c \o <<"bq", "sp", "failed, Error:", "sp">> \o r.text)

\* if !is_success || sn
should_notify(is_success, flag) == ~is_success \/ flag

\* message.split_at(message.find('\n').unwrap_or(message.len()))
split_summary(msg) ==
    LET at == find_nl(msg)
        cut == IF at = 0 THEN Len(msg) ELSE at - 1
    IN  [summary |-> SubSeq(msg, 1, cut), body |-> SubSeq(msg, cut + 1, Len(msg))]

\* the error! event of send_notification when notify-send cannot be run
notify_missing_record(summary, body) ==
    format_event("ERROR",
        <<"notify-send not found. Notification skipped:", "sp">> \o summary
            \o <<"sp", "-", "sp">> \o body)

\* faulty variant: a failed execution is returned as Err
run_command_result_propagate(msg) == IF result.ok THEN Ok(msg) ELSE Err(msg)

\* the value run_command returns
run_command_result(msg) == Ok(msg)

\* run_test: match run_command(..) { Ok(s) => Ok(s), Err(e) => Ok(e) }
run_test_result(r) == Ok(r.text)

\* a tray click or the run_test command enters run_command
run_command_call ==
    /\ pc = "idle"
    /\ \E c \in Commands, flag \in BOOLEAN, who \in {"tray", "run_test"} :
        /\ cmd' = c
        /\ sn' = flag
        /\ caller' = who
    /\ pc' = "spawn"
    /\ UNCHANGED <<child, childState, now, killedAt, result, message, events, ret,
                   retAt, notifier, logFile, wr, cfgFile, loaded, reg, app, man, lw, ui>>

\* faulty variant: only a failed execution is pushed to the log
run_command_log_errors_only ==
    /\ pc = "log"
    /\ message' = format_message(result, cmd)
    /\ IF result.ok
       THEN UNCHANGED <<events, logFile>>
       ELSE \E io \in LogIo(logFile) :
            /\ events' = Append(events,
                    [kind |-> "log", text |-> log_record(result, cmd), io |-> io])
            /\ logFile' = LineLimitedFile_write_io(logFile, log_record(result, cmd), io)
    /\ pc' = "notify"
    /\ UNCHANGED <<caller, cmd, sn, child, childState, now, killedAt, result, ret,
                   retAt, notifier, wr, cfgFile, loaded, reg, app, man, lw, ui>>

\* faulty variant: a log write that fails ends the call with the error
run_command_log_fallible ==
    /\ pc = "log"
    /\ message' = format_message(result, cmd)
    /\ \E io \in LogIo(logFile) :
        /\ events' = Append(events,
                [kind |-> "log", text |-> log_record(result, cmd), io |-> io])
        /\ logFile' = LineLimitedFile_write_io(logFile, log_record(result, cmd), io)
        /\ IF io = "ok"
           THEN pc' = "notify" /\ UNCHANGED ret
           ELSE pc' = "done" /\ ret' = Err(<<"ioerr">>)
    /\ UNCHANGED <<caller, cmd, sn, child, childState, now, killedAt, result,
                   retAt, notifier, wr, cfgFile, loaded, reg, app, man, lw, ui>>

\* the message is formatted and the summary record pushed to the log, whose
\* write succeeds or fails
run_command_log ==
    /\ pc = "log"
    /\ message' = format_message(result, cmd)
    /\ \E io \in LogIo(logFile) :
        /\ events' = Append(events,
                [kind |-> "log", text |-> log_record(result, cmd), io |-> io])
        /\ logFile' = LineLimitedFile_write_io(logFile, log_record(result, cmd), io)
    /\ pc' = "notify"
    /\ UNCHANGED <<caller, cmd, sn, child, childState, now, killedAt, result, ret,
                   retAt, notifier, wr, cfgFile, loaded, reg, app, man, lw, ui>>

\* body.chars().count() > 200, body.chars().take(200)
BodyLimit == 200

\* limited_body: the first 200 chars and "..." when the body has more
limited_body(body) ==
    IF chars_count(body) > BodyLimit
    THEN chars_take(body, BodyLimit) \o <<"...">>
    ELSE body

\* faulty variant: what notify-send did is handed on to the caller
send_notification_result_checked(present, shown, msg) ==
    IF present /\ shown THEN msg ELSE <<"notify-send failed">>

\* send_notification returns nothing: the message run_command goes on with
\* is the one it had, whether notify-send was found and whatever its status
send_notification_result(present, shown, msg) == msg

\* faulty variant: a successful command notifies whatever sn is
run_command_notify_always ==
    /\ pc = "notify"
    /\ LET parts == split_summary(message)
           body == limited_body(parts.body)
       IN  /\ notifier' = TRUE
           /\ events' = Append(events,
                   [kind |-> "notify", summary |-> parts.summary, body |-> body,
                    shown |-> TRUE])
    /\ pc' = "return"
    /\ UNCHANGED <<caller, cmd, sn, child, childState, now, killedAt, result,
                   message, ret, retAt, logFile, wr, cfgFile, loaded, reg, app, man, lw, ui>>

\* send notification if fail or enable sn; send_notification finds
\* notify-send (its --version could be run) or not, and when it does the
\* status of the notify-send that shows the notification is dropped
run_command_notify ==
    /\ pc = "notify"
    /\ LET parts == split_summary(message)
           body == limited_body(parts.body)
       IN  IF should_notify(result.ok, sn)
           THEN \E present \in BOOLEAN, shown \in BOOLEAN :
                /\ notifier' = present
                /\ message' = send_notification_result(present, shown, message)
                /\ IF present
                   THEN /\ events' = Append(events,
                               [kind |-> "notify", summary |-> parts.summary,
                                body |-> body, shown |-> shown])
                        /\ UNCHANGED logFile
                   ELSE /\ ~shown
                        /\ \E io \in LogIo(logFile) :
                            /\ events' = Append(events,
                                   [kind |-> "log",
                                    text |-> notify_missing_record(parts.summary, body),
                                    io |-> io])
                            /\ logFile' = LineLimitedFile_write_io(logFile,
                                   notify_missing_record(parts.summary, body), io)
           ELSE UNCHANGED <<events, logFile, notifier, message>>
    /\ pc' = "return"
    /\ UNCHANGED <<caller, cmd, sn, child, childState, now, killedAt, result,
                   ret, retAt, wr, cfgFile, loaded, reg, app, man, lw, ui>>

\* Ok(message), through run_test when that is the caller
run_command_return ==
    /\ pc = "return"
    /\ ret' = IF caller = "run_test"
              THEN run_test_result(run_command_result(message))
              ELSE run_command_result(message)
    /\ pc' = "done"
    /\ UNCHANGED <<caller, cmd, sn, child, childState, now, killedAt, result,
                   message, events, retAt, notifier, logFile, wr, cfgFile, loaded, reg, app, man, lw, ui>>

run_command ==
    \/ run_command_call
    \/ run_command_log
    \/ run_command_notify
    \/ run_command_return

----------------------------------------------------------------------------
(* Concurrent appends to the log: tracing makes one LineLimitedFile per     *)
(* event and calls its write on the thread that logs.  The tray's           *)
(* on_menu_event runs run_command on the main thread, run_test on a thread  *)
(* of the async runtime.                                                    *)

Writers == {"tray", "run_test"}

\* how many records one thread appends
MaxAppends == 2

IdleWriter == [pc |-> "idle", n |-> 0, msg |-> <<>>, data |-> <<>>]

\* the k-th event thread t logs: a one-line record of its own
LogBuf(t, k) == format_event("INFO", <<t, "sp", "rec", "sp", ToString(k)>>)

\* the records whose write has returned
Written == { <<t, k>> \in Writers \X (1..MaxAppends) : k <= wr[t].n }

\* bytes written at offset 0 of a file that holds old
overwrite(old, data) == data \o SubSeq(old, Len(data) + 1, Len(old))

\* write() is entered: the message is taken from buf
write_enter(t) ==
    /\ wr[t].pc = "idle"
    /\ wr[t].n < MaxAppends
    /\ wr' = [wr EXCEPT ![t].pc = "read",
                        ![t].msg = write_message(LogBuf(t, wr[t].n + 1))]
    /\ UNCHANGED <<execVars, logFile, cfgFile, loaded, reg, app, man, lw, ui>>

\* the file is read, the message appended, the result cut to max_lines
write_modify(t) ==
    /\ wr[t].pc = "read"
    /\ wr' = [wr EXCEPT ![t].pc = "create",
                        ![t].data = write_truncated(
                                        write_content(write_read(logFile), wr[t].msg))]
    /\ UNCHANGED <<execVars, logFile, cfgFile, loaded, reg, app, man, lw, ui>>

\* fs::write opens the file: created if absent, cut to length 0
write_create(t) ==
    /\ wr[t].pc = "create"
    /\ logFile' = File(<<>>)
    /\ wr' = [wr EXCEPT ![t].pc = "write_all"]
    /\ UNCHANGED <<execVars, cfgFile, loaded, reg, app, man, lw, ui>>

\* fs::write writes the text from offset 0; write() returns
write_all(t) ==
    /\ wr[t].pc = "write_all"
    /\ logFile' = File(overwrite(logFile.content, wr[t].data))
    /\ wr' = [wr EXCEPT ![t].pc = "idle", ![t].n = wr[t].n + 1,
                        ![t].msg = <<>>, ![t].data = <<>>]
    /\ UNCHANGED <<execVars, cfgFile, loaded, reg, app, man, lw, ui>>

LineLimitedFile_write_steps ==
    \E t \in Writers :
        \/ write_enter(t)
        \/ write_modify(t)
        \/ write_create(t)
        \/ write_all(t)

----------------------------------------------------------------------------
(* Whole writes to a log file that an earlier run, or anybody, left behind *)

\* how many writes follow one another
MaxWrites == 3

\* how many lines over max_lines the longest file found has
MaxExcess == 50

\* n numbered one-line records, joined by line feeds
OldLines(n) == join([i \in 1..n |-> <<"old", "sp", ToString(i)>>])

\* the contents the file may have when the first write finds it: nothing, one
\* line, just under, at and over max_lines lines, with or without a line feed
\* at the end, with blank lines
PriorLogs ==
    { <<>>, <<"nl">>, OldLines(1), OldLines(1) \o <<"nl", "nl", "sp", "nl">>,
      OldLines(max_lines - 1), OldLines(max_lines), OldLines(max_lines) \o <<"nl">>,
      OldLines(max_lines + 1), OldLines(max_lines + MaxExcess) }

\* the bytes handed to write: nothing, white space only, a one-line event, an
\* event whose message holds a line break, one that holds an empty line
WriteBufs ==
    { <<>>, <<"sp", "nl">>,
      format_event("INFO", <<"m">>),
      format_event("ERROR", <<"m", "nl", "n">>),
      format_event("ERROR", <<"m", "nl", "nl", "n", "nl">>) }

NoWrite == [n |-> 0, done |-> FALSE, io |-> "ok", buf |-> <<>>, before |-> AbsentFile]

\* the log file is found as something left it, before the first write
log_found ==
    /\ lw.n = 0 /\ ~lw.done /\ logFile = AbsentFile
    /\ \E c \in PriorLogs : logFile' = File(c)
    /\ lw' = [NoWrite EXCEPT !.before = logFile']
    /\ UNCHANGED <<execVars, wr, cfgFile, loaded, reg, app, man, ui>>

\* one call of write from its first line to its return, alone on the file
LineLimitedFile_write_call ==
    /\ lw.n < MaxWrites
    /\ \E buf \in WriteBufs, io \in LogIo(logFile) :
        /\ logFile' = LineLimitedFile_write_io(logFile, buf, io)
        /\ lw' = [n |-> lw.n + 1, done |-> TRUE, io |-> io, buf |-> buf,
                  before |-> logFile]
    /\ UNCHANGED <<execVars, wr, cfgFile, loaded, reg, app, man, ui>>

----------------------------------------------------------------------------
(* The command document, commands.toml *)

\* TOML values
TStr(x) == [t |-> "str", v |-> x]
TInt(n) == [t |-> "int", v |-> n]
TBool(b) == [t |-> "bool", v |-> b]

\* the shells of the specification's whitelist
Shells == {"sh", "bash", "zsh", "fish"}

\* how many entries a document of the model holds at most
MaxEntries == 2

\* "icon: up to 8 UTF-8 characters"
IconLimit == 8

\* the tables a hand-edited or saved document may hold
EntryA == [id |-> TInt(1), command |-> TStr(<<"c">>), icon |-> TStr(<<"i">>), sn |-> TBool(TRUE)]
EntryB == [id |-> TInt(2), command |-> TStr(<<"d">>), icon |-> TStr(<<>>), sn |-> TBool(FALSE),
           shell |-> TStr("bash")]
EntryEmptyCommand == [id |-> TInt(3), command |-> TStr(<<>>), icon |-> TStr(<<"i">>), sn |-> TBool(TRUE)]
EntryLongIcon ==
    [id |-> TInt(4), command |-> TStr(<<"e">>),
     icon |-> TStr(<<"1", "2", "3", "4", "5", "6", "7", "8", "9">>), sn |-> TBool(TRUE)]
EntryOtherShell ==
    [id |-> TInt(5), command |-> TStr(<<"f">>), icon |-> TStr(<<"i">>), sn |-> TBool(TRUE),
     shell |-> TStr("powershell")]
EntryNoSn == [id |-> TInt(6), command |-> TStr(<<"g">>), icon |-> TStr(<<"i">>)]
EntryTextId == [id |-> TStr(<<"7">>), command |-> TStr(<<"h">>), icon |-> TStr(<<"i">>), sn |-> TBool(TRUE)]

Entries == {EntryA, EntryB, EntryEmptyCommand, EntryLongIcon, EntryOtherShell,
            EntryNoSn, EntryTextId}

EntryLists == UNION { [1..n -> Entries] : n \in 0..MaxEntries }

\* a document: text that is TOML or not; if it is, the key of its array of
\* tables and the tables
Documents ==
    { [toml |-> FALSE, key |-> "commands", entries |-> <<>>] }
    \cup [toml : {TRUE}, key : {"commands", "command"}, entries : EntryLists]

AbsentCfg == [exists |-> FALSE, doc |-> [toml |-> TRUE, key |-> "commands", entries |-> <<>>]]
CfgFile(d) == [exists |-> TRUE, doc |-> d]

NotLoaded == [done |-> FALSE, ok |-> FALSE, commands |-> <<>>]

\* serde's Deserialize of UserCommand: the four fields, each of its type;
\* other keys of the table are skipped
deserialize_UserCommand_ok(e) ==
    /\ {"id", "command", "icon", "sn"} \subseteq DOMAIN e
    /\ e.id.t = "int" /\ e.id.v >= 0
    /\ e.command.t = "str"
    /\ e.icon.t = "str"
    /\ e.sn.t = "bool"

UserCommand(e) ==
    [id |-> e.id.v, command |-> e.command.v, icon |-> e.icon.v, sn |-> e.sn.v]

\* toml::from_str into the config struct: the `commands` array of UserCommand
from_str_ok(d) ==
    /\ d.toml
    /\ d.key = "commands"
    /\ \A i \in 1..Len(d.entries) : deserialize_UserCommand_ok(d.entries[i])

\* load_commands: read the file, parse it
load_commands(file) ==
    IF file.exists /\ from_str_ok(file.doc)
    THEN [done |-> TRUE, ok |-> TRUE,
          commands |-> [i \in 1..Len(file.doc.entries) |-> UserCommand(file.doc.entries[i])]]
    ELSE [done |-> TRUE, ok |-> FALSE, commands |-> <<>>]

\* the user edits commands.toml by hand; what was loaded before is stale
edit_document ==
    /\ \E d \in Documents : cfgFile' = CfgFile(d)
    /\ loaded' = NotLoaded
    /\ UNCHANGED <<execVars, logFile, wr, reg, app, man, lw, ui>>

\* get_commands: load_commands().map_err(..)?; Ok(config.commands)
get_commands ==
    /\ loaded' = load_commands(cfgFile)
    /\ UNCHANGED <<execVars, logFile, wr, cfgFile, reg, app, man, lw, ui>>

----------------------------------------------------------------------------
(* set_commands, set_config, reset_commands and the start of the application *)

\* the UserCommand values the settings window may hand to set_commands
CmdA == [id |-> 1, command |-> <<"c">>, icon |-> <<"i">>, sn |-> TRUE]
\* a command whose text starts with "cmd_": what follows is CmdA's command
CmdB == [id |-> 2, command |-> <<"cmd_", "c">>, icon |-> <<>>, sn |-> FALSE]
CmdEmpty == [id |-> 3, command |-> <<>>, icon |-> <<"i">>, sn |-> TRUE]

UserCommands == {CmdA, CmdB, CmdEmpty}

\* Vec<UserCommand>: any sequence, also with an empty command or with the
\* same command twice
CommandSets == UNION { [1..n -> UserCommands] : n \in 0..MaxEntries }

\* the document with no key at all (a file cut to nothing)
EmptyDocument == [toml |-> TRUE, key |-> "", entries |-> <<>>]

\* default_config.trim() of set_config: one `[[command]]` table with the keys
\* name, active and system_notification
DefaultDocument ==
    [toml |-> TRUE, key |-> "command",
     entries |-> << [name |-> TStr(<<"hostname -A">>), active |-> TBool(TRUE),
                     system_notification |-> TBool(TRUE)] >>]

\* what the file system calls of one operation do: all succeed, the file
\* cannot be created / opened / read, or it is created and then not written
IoOutcomes == {"ok", "open_fails", "write_fails"}

\* fs::write(path, contents): create or truncate, then write all of it
fs_write(file, d, io) ==
    CASE io = "ok" -> CfgFile(d)
      [] io = "open_fails" -> file
      [] OTHER -> CfgFile(EmptyDocument)

\* serde's Serialize of one UserCommand, as a table of the document
serialize_UserCommand(c) ==
    [id |-> TInt(c.id), command |-> TStr(c.command), icon |-> TStr(c.icon),
     sn |-> TBool(c.sn)]

\* faulty variant: the sn flag is written under the key of the old schema
to_string_old_schema(commands) ==
    [toml |-> TRUE, key |-> "commands",
     entries |-> [i \in 1..Len(commands) |->
        [id |-> TInt(commands[i].id), command |-> TStr(commands[i].command),
         icon |-> TStr(commands[i].icon),
         system_notification |-> TBool(commands[i].sn)]]]

\* toml::to_string of the config struct: the array of tables `commands`
to_string(commands) ==
    [toml |-> TRUE, key |-> "commands",
     entries |-> [i \in 1..Len(commands) |-> serialize_UserCommand(commands[i])]]

\* faulty variant: the tables saved are added to those the document holds
save_commands_append(file, commands, io) ==
    fs_write(file,
        IF file.exists /\ file.doc.toml /\ file.doc.key = "commands"
        THEN [to_string(commands) EXCEPT !.entries = file.doc.entries \o @]
        ELSE to_string(commands),
        io)

\* save_commands: fs::write(full_path_commands(), toml::to_string(config)?)
save_commands(file, commands, io) == fs_write(file, to_string(commands), io)

\* faulty variant: the default content is written only when there is no file
set_config_keep_existing(file, reset, io) ==
    IF ~file.exists
    THEN [file |-> fs_write(file, DefaultDocument, io), ok |-> io = "ok",
          text |-> IF io = "ok" THEN "File created" ELSE "ioerr"]
    ELSE [file |-> file, ok |-> TRUE, text |-> "File exists"]

\* set_config(reset): the file after the call and the io::Result it returns
set_config(file, reset, io) ==
    IF ~file.exists \/ reset
    THEN [file |-> fs_write(file, DefaultDocument, io), ok |-> io = "ok",
          text |-> IF io = "ok" THEN "File created" ELSE "ioerr"]
    ELSE [file |-> file, ok |-> TRUE, text |-> "File exists"]

\* no call of a tauri command yet (in this run of the application); of a
\* call, arg is the set that set_commands stored, before the file that
\* set_config found, inner what set_config returned
NoCall ==
    [op |-> "none", force |-> FALSE, before |-> AbsentCfg, io |-> "ok",
     arg |-> <<>>, inner |-> "", ok |-> FALSE, text |-> ""]

\* no item of the tray menu was clicked; program is the interpreter that
\* execute_command ran the command with; of a click, item is the place of the
\* item in the menu, ran whether run_command was called, cmd and sn with what
NoClick == [item |-> 0, ran |-> FALSE, cmd |-> <<>>, sn |-> FALSE, program |-> ""]

\* run() has not been entered / the process is gone
AppOff == [pc |-> "off", code |-> 0, commands |-> <<>>, tray |-> <<>>, click |-> NoClick]

\* the settings window can invoke the tauri commands once the application runs
Invocable == app.pc = "running"

\* set_commands(commands): save, "Commands saved" or the error as text
set_commands ==
    /\ Invocable
    /\ \E c \in CommandSets, io \in IoOutcomes :
        /\ cfgFile' = save_commands(cfgFile, c, io)
        /\ reg' = [NoCall EXCEPT !.op = "set_commands", !.io = io,
                                 !.arg = IF io = "ok" THEN c ELSE <<>>,
                                 !.ok = (io = "ok"),
                                 !.text = IF io = "ok" THEN "Commands saved" ELSE "ioerr"]
    /\ loaded' = NotLoaded
    /\ UNCHANGED <<execVars, logFile, wr, app, man, lw, ui>>

\* reset_commands: set_config(Some(true)), "Settings reset to default" or the
\* error as text
reset_commands ==
    /\ Invocable
    /\ \E io \in IoOutcomes :
        LET r == set_config(cfgFile, TRUE, io)
        IN  /\ cfgFile' = r.file
            /\ reg' = [NoCall EXCEPT !.op = "reset_commands", !.force = TRUE,
                                     !.before = cfgFile, !.io = io, !.inner = r.text,
                                     !.ok = r.ok,
                                     !.text = IF r.ok THEN "Settings reset to default"
                                              ELSE "ioerr"]
    /\ loaded' = NotLoaded
    /\ UNCHANGED <<execVars, logFile, wr, app, man, lw, ui>>

\* the user writes commands.toml by hand, in the schema of UserCommand
edit_document_canonical ==
    /\ \E c \in CommandSets : cfgFile' = CfgFile(to_string(c))
    /\ loaded' = NotLoaded
    /\ reg' = NoCall
    /\ UNCHANGED <<execVars, logFile, wr, app, man, lw, ui>>

\* documents in the schema of UserCommand whose tables may also name a shell
ShellDocuments ==
    { [toml |-> TRUE, key |-> "commands", entries |-> es] :
        es \in UNION { [1..n -> {EntryA, EntryB, EntryOtherShell}] : n \in 0..MaxEntries } }

\* the user writes commands.toml by hand, with or without a shell per command
edit_document_shell ==
    /\ \E d \in ShellDocuments : cfgFile' = CfgFile(d)
    /\ loaded' = NotLoaded
    /\ reg' = NoCall
    /\ UNCHANGED <<execVars, logFile, wr, app, man, lw, ui>>

\* the process starts (first start, or app.restart() / a new start after an
\* exit) and enters run()
run_enter ==
    /\ app.pc \in {"off", "running", "exited"}
    /\ app' = [AppOff EXCEPT !.pc = "set_config"]
    /\ reg' = NoCall
    /\ loaded' = NotLoaded
    /\ UNCHANGED <<execVars, logFile, wr, cfgFile, man, lw, ui>>

\* if let Err(e) = set_config(None) { ...; std::process::exit(1) }
run_set_config ==
    /\ app.pc = "set_config"
    /\ \E io \in IoOutcomes :
        LET r == set_config(cfgFile, FALSE, io)
        IN  /\ cfgFile' = r.file
            /\ reg' = [NoCall EXCEPT !.op = "set_config", !.before = cfgFile,
                                     !.io = io, !.inner = r.text, !.ok = r.ok,
                                     !.text = r.text]
            /\ app' = IF r.ok THEN [app EXCEPT !.pc = "load_commands"]
                      ELSE [app EXCEPT !.pc = "exited", !.code = 1]
    /\ UNCHANGED <<execVars, logFile, wr, loaded, man, lw, ui>>

\* faulty variant: a document that cannot be loaded gives an empty command set
run_load_commands_or_default ==
    /\ app.pc = "load_commands"
    /\ \E readable \in BOOLEAN :
        LET r == IF readable THEN load_commands(cfgFile) ELSE load_commands(AbsentCfg)
        IN  /\ loaded' = r
            /\ app' = [app EXCEPT !.pc = "setup", !.commands = r.commands]
    /\ UNCHANGED <<execVars, logFile, wr, cfgFile, reg, man, lw, ui>>

\* let commands_config = load_commands().unwrap_or_else(|err| { ...;
\* std::process::exit(1) }); the file can be read or not
run_load_commands ==
    /\ app.pc = "load_commands"
    /\ \E readable \in BOOLEAN :
        LET r == IF readable THEN load_commands(cfgFile) ELSE load_commands(AbsentCfg)
        IN  /\ loaded' = r
            /\ app' = IF r.ok THEN [app EXCEPT !.pc = "setup", !.commands = r.commands]
                      ELSE [app EXCEPT !.pc = "exited", !.code = 1]
    /\ UNCHANGED <<execVars, logFile, wr, cfgFile, reg, man, lw, ui>>

\* the menu item of one command: its id is "cmd_" followed by the command
menu_item(c) == [id |-> <<"cmd_">> \o c.command, sn |-> c.sn]

\* setup: one menu item per loaded command, in their order, and the tray
run_setup ==
    /\ app.pc = "setup"
    /\ app' = [app EXCEPT !.pc = "running",
                          !.tray = [i \in 1..Len(app.commands) |-> menu_item(app.commands[i])]]
    /\ UNCHANGED <<execVars, logFile, wr, cfgFile, loaded, reg, man, lw, ui>>

\* id.replace("cmd_", ""): every "cmd_" of the id is taken out
replace_cmd(id) == SelectSeq(id, LAMBDA t : t # "cmd_")

\* commands.iter().find(|c| c.command == cmd_com): the places of the loaded
\* commands equal to cmd_com (find takes the first)
find_command(commands, cmd_com) ==
    {k \in 1..Len(commands) : commands[k].command = cmd_com}

\* on_menu_event for an id that starts with "cmd_": the id without "cmd_" is
\* looked up among the loaded commands and, when found, handed to run_command
\* with the sn of the command found
on_menu_event_cmd ==
    /\ app.pc = "running"
    /\ \E i \in 1..Len(app.tray) :
        LET cmd_com == replace_cmd(app.tray[i].id)
            found == find_command(app.commands, cmd_com)
        IN  app' = [app EXCEPT !.click =
                IF found = {}
                THEN [NoClick EXCEPT !.item = i]
                ELSE LET k == CHOOSE k \in found : \A j \in found : k <= j
                     IN  [item |-> i, ran |-> TRUE, cmd |-> cmd_com,
                          sn |-> app.commands[k].sn,
                          program |-> execute_command_program]]
    /\ UNCHANGED <<execVars, logFile, wr, cfgFile, loaded, reg, man, lw, ui>>

run ==
    \/ run_enter
    \/ run_set_config
    \/ run_load_commands
    \/ run_setup

----------------------------------------------------------------------------
(* get_man, read_man and process_man_output *)

\* the first index from k on whose token is white space or ">", 0 if none
RECURSIVE url_stop(_, _)
url_stop(s, k) ==
    IF k > Len(s) THEN 0
    ELSE IF IsWhite(s[k]) \/ s[k] = ">" THEN k
    ELSE url_stop(s, k + 1)

\* <a href="{}" class="man-link">{}</a>
link_markup(url) ==
    <<"<a", "sp", "href=", "dq">> \o url \o <<"dq", "sp", "class=", "dq", "man-link", "dq", ">">>
        \o url \o <<"</a>">>

\* url_regex.replace_all, <(\bhttps?://[^\s>]+)>: a "<", a URL that runs up
\* to the next ">" with no white space in it
RECURSIVE link_from(_, _)
link_from(s, i) ==
    IF i > Len(s) THEN <<>>
    ELSE LET stop == url_stop(s, i + 2)
         IN  IF /\ s[i] = "<"
                /\ i + 1 <= Len(s)
                /\ s[i + 1] = "https://h/"
                /\ stop # 0
                /\ s[stop] = ">"
             THEN link_markup(SubSeq(s, i + 1, stop - 1)) \o link_from(s, stop + 1)
             ELSE <<s[i]>> \o link_from(s, i + 1)

link_pass(s) == link_from(s, 1)

\* <span class="{}">{}</span>
span_markup(class_name, text) ==
    <<"<span", "sp", "class=", "dq", class_name, "dq", ">">> \o text \o <<"</span>">>

\* a token that starts with one or two hyphens and a letter or digit
IsDash(t) == t \in {"--all"}

\* the last index of the run of tokens without white space that starts at k
RECURSIVE run_end(_, _)
run_end(s, k) ==
    IF k + 1 > Len(s) \/ IsWhite(s[k + 1]) THEN k ELSE run_end(s, k + 1)

\* the pass of (?:^|\s)(-{1,2}[a-zA-Z0-9][^\s]*): the start of the text or
\* one white space, then a hyphen token and all that follows up to the next
\* white space; the whole match (&caps[0]) goes inside the span
RECURSIVE dash_from(_, _)
dash_from(s, i) ==
    IF i > Len(s) THEN <<>>
    ELSE IF i = 1 /\ IsDash(s[1])
         THEN span_markup("man-dash", SubSeq(s, 1, run_end(s, 1)))
                  \o dash_from(s, run_end(s, 1) + 1)
    ELSE IF IsWhite(s[i]) /\ i + 1 <= Len(s) /\ IsDash(s[i + 1])
         THEN span_markup("man-dash", SubSeq(s, i, run_end(s, i + 1)))
                  \o dash_from(s, run_end(s, i + 1) + 1)
    ELSE <<s[i]>> \o dash_from(s, i + 1)

dash_pass(s) == dash_from(s, 1)

\* tokens whose first / last character is a word character (\w)
StartsWord(t) ==
    t \in {"lo", "README", "x48", "x10000", "https://h/", "href=", "class=",
           "man-link", "man-dash", "man-uppercase"}
EndsWord(t) ==
    t \in {"lo", "README", "x48", "x10000", "--all", "<a", "<span",
           "man-link", "man-dash", "man-uppercase"}

\* a token that is two or more upper-case letters
IsUpper(t) == t \in {"README"}

\* the pass of \b([A-Z]{2,})\b: an upper-case word with no word character
\* right before it and none right after it
RECURSIVE upper_from(_, _)
upper_from(s, i) ==
    IF i > Len(s) THEN <<>>
    ELSE IF /\ IsUpper(s[i])
            /\ (i = 1 \/ ~EndsWord(s[i - 1]))
            /\ (i = Len(s) \/ ~StartsWord(s[i + 1]))
         THEN span_markup("man-uppercase", <<s[i]>>) \o upper_from(s, i + 1)
    ELSE <<s[i]>> \o upper_from(s, i + 1)

upper_pass(s) == upper_from(s, 1)

\* process_man_output: the link pass, then the patterns in their order
process_man_output(output) == upper_pass(dash_pass(link_pass(output)))

\* const MIN_HELP_LENGTH
MIN_HELP_LENGTH == 50

\* let max_chars
max_chars == 30000

\* what a help command writes to its stdout or to its stderr
ManTexts ==
    { <<>>,
      <<"lo", "nl">>,
      <<"x48", "nl">>,
      <<"x48", "bad">>,
      <<"x48", "nl", "nl">>,
      <<"x48", "sp", "--all", "sp", "README", "sp", "<", "https://h/", "lo", ">", "nl">>,
      <<"x48", "sp", "<", "https://h/", "README", ">", "nl">>,
      <<"--all", "<", "https://h/", "lo", ">", "sp", "x48">>,
      <<"x10000", "x10000", "x10000", "nl">>,
      <<"x10000", "x10000", "x10000", "lo", "nl">> }

\* one run of `sh -c <variant>`: it cannot be spawned, or it writes out and err
\* (with text on both, or on one of the two) and exits, or it never exits
ManOutcomes ==
    { [spawns |-> FALSE, exits |-> FALSE, out |-> <<>>, err |-> <<>>],
      [spawns |-> TRUE, exits |-> FALSE, out |-> <<>>, err |-> <<>>] }
    \cup [spawns : {TRUE}, exits : {TRUE}, out : ManTexts,
          err : {<<>>, <<"lo", "nl">>, <<"x10000", "x10000", "x10000", "lo", "nl">>}]
    \cup [spawns : {TRUE}, exits : {TRUE}, out : {<<>>}, err : ManTexts]

\* Command::output() waits for the exit of what it spawned, with no limit
output_returns(o) == ~o.spawns \/ o.exits

\* read_man: stdout cut to max_chars when it is not empty, else stderr
read_man(o) ==
    IF ~o.spawns THEN Err(<<"Failed read_man:", "sp", "ioerr">>)
    ELSE IF o.out # <<>>
         THEN LET s == from_utf8_lossy(o.out)
              IN  Ok(IF chars_count(s) <= max_chars THEN s ELSE chars_take(s, max_chars))
         ELSE Ok(from_utf8_lossy(o.err))

\* let help_flags
help_flags ==
    <<" --help", " -h", " --usage", " help", " -help", " -?", " --longhelp",
      " --long-help", " --help-all", " info">>

\* the queries: nothing, blanks, a command, commands with a help flag
\* (" -hl" is no help flag but holds " -h")
ManQueries ==
    { <<>>, <<"sp">>, <<"ls">>, <<"git", " help">>, <<"ls", " --help">>, <<"ls", " -hl">> }

\* help_flags.iter().any(|&flag| cmd.contains(flag))
has_help_flag(c) ==
    \E i \in 1..Len(c) :
        \/ \E k \in 1..Len(help_flags) : c[i] = help_flags[k]
        \/ c[i] = " -hl"

\* the variants: the query with each help flag, then the man page
variants(c) ==
    [k \in 1..Len(help_flags) |-> c \o <<help_flags[k]>>]
        \o << <<"MANPAGER=cat man", "sp">> \o c >>

\* faulty variant: a help of exactly MIN_HELP_LENGTH bytes is too short
variant_accepted_strict(r) == r.ok /\ str_len(r.text) > MIN_HELP_LENGTH

\* Ok(output) if output.len() >= MIN_HELP_LENGTH
variant_accepted(r) == r.ok /\ str_len(r.text) >= MIN_HELP_LENGTH

ManIdle ==
    [pc |-> "idle", cmd |-> <<>>, i |-> 0, tried |-> <<>>, handed |-> FALSE,
     raw |-> <<>>, ret |-> None]

\* get_man is entered: an empty query is refused, a query with a help flag is
\* run as it is, any other goes through the variants
get_man_call ==
    /\ man.pc = "idle"
    /\ \E c \in ManQueries :
        man' = IF trim(c) = <<>>
               THEN [man EXCEPT !.pc = "done", !.cmd = c,
                                !.ret = Err(<<"Enter the command to search for help">>)]
               ELSE IF has_help_flag(c)
               THEN [man EXCEPT !.pc = "as_entered", !.cmd = c]
               ELSE [man EXCEPT !.pc = "variants", !.cmd = c, !.i = 1]
    /\ UNCHANGED <<execVars, logFile, wr, cfgFile, loaded, reg, app, lw, ui>>

\* let output = read_man(cmd)?; return Ok(process_man_output(output)); when
\* the command does not exit, read_man stays in Command::output()
get_man_as_entered ==
    /\ man.pc = "as_entered"
    /\ \E o \in ManOutcomes :
        LET r == read_man(o)
        IN  man' = IF ~output_returns(o)
                   THEN [man EXCEPT !.pc = "in_output"]
                   ELSE IF r.ok
                   THEN [man EXCEPT !.pc = "done", !.handed = TRUE, !.raw = r.text,
                                    !.ret = Ok(process_man_output(r.text))]
                   ELSE [man EXCEPT !.pc = "done", !.ret = r]
    /\ UNCHANGED <<execVars, logFile, wr, cfgFile, loaded, reg, app, lw, ui>>

\* one turn of `for variant in &variants`: the variant is run; its output is
\* processed and returned when it is long enough, else the next one is tried;
\* when the variant does not exit, read_man stays in Command::output()
get_man_variant ==
    /\ man.pc = "variants"
    /\ man.i <= Len(variants(man.cmd))
    /\ \E o \in ManOutcomes :
        LET r == read_man(o)
            t == Append(man.tried,
                    [variant |-> variants(man.cmd)[man.i], ok |-> r.ok,
                     long |-> r.ok /\ str_len(r.text) >= MIN_HELP_LENGTH])
        IN  man' = IF ~output_returns(o)
                   THEN [man EXCEPT !.pc = "in_output"]
                   ELSE IF variant_accepted(r)
                   THEN [man EXCEPT !.pc = "done", !.tried = t, !.handed = TRUE,
                                    !.raw = r.text,
                                    !.ret = Ok(process_man_output(r.text))]
                   ELSE [man EXCEPT !.i = @ + 1, !.tried = t]
    /\ UNCHANGED <<execVars, logFile, wr, cfgFile, loaded, reg, app, lw, ui>>

\* Err(format!("No valid help found for '{}'", cmd))
get_man_none ==
    /\ man.pc = "variants"
    /\ man.i > Len(variants(man.cmd))
    /\ man' = [man EXCEPT !.pc = "done",
                          !.ret = Err(<<"No valid help found for", "sp", "'">> \o man.cmd \o <<"'">>)]
    /\ UNCHANGED <<execVars, logFile, wr, cfgFile, loaded, reg, app, lw, ui>>

get_man ==
    \/ get_man_call
    \/ get_man_as_entered
    \/ get_man_variant
    \/ get_man_none

----------------------------------------------------------------------------
(* The settings window (app.rs): the rows of the commands table, the status *)
(* line, the Save & Restart button                                           *)

\* how many rows the table of the model has at most
MaxRows == 2

\* what the user may type into the command field of a row
UiTexts == { <<>>, <<"sp">>, <<"c">>, <<"c", "sp">> }

\* Command::new(gen_id()): the row that "Add command" appends (the id is the
\* time of the click in nanoseconds, as text)
Command_new ==
    [id |-> "nanos", shell |-> "sh", command |-> <<"new">>, icon |-> <<>>, sn |-> TRUE]

\* the statuses of the two checks of save (the command is in backquotes there)
StatusEmpty == "Err( Field command cannot be empty )"
StatusNotUnique == "Err( Field command must be unique )"

\* the window as it opens: no rows, no status, nothing invoked; last is the
\* handler that ran last, buf the rows save was clicked on, calls the tauri
\* commands invoked so far, commands0 the rows as they were loaded, saved
\* whether set_commands answered Ok, reset and is_maximized the signals of
\* these names, maximized whether the window itself is maximized, sent the
\* action that the last call of ctrl_window handed to the backend ("" when
\* it handed none); of a click on an order button or on Delete, prev the
\* rows before it and up, arg what the handler was called with
UiIdle ==
    [pc |-> "idle", commands |-> <<>>, status |-> "", last |-> "none",
     buf |-> <<>>, calls |-> <<>>, commands0 |-> <<>>, saved |-> FALSE,
     reset |-> FALSE, is_maximized |-> "max0", maximized |-> FALSE, sent |-> "",
     prev |-> <<>>, up |-> FALSE, arg |-> 0]

\* the rows can still be edited: the restart has not been asked for (the
\* window is followed no further once an invoke of the task of save was
\* rejected, until it is opened again)
Editable == ui.pc \in {"idle", "await_set_commands"}

\* serde's Serialize of one row of the window (Command), as invoke hands it
\* to the backend: the id is a string
serialize_Command(c) ==
    [id |-> TStr(c.id), shell |-> TStr(c.shell), command |-> TStr(c.command),
     icon |-> TStr(c.icon), sn |-> TBool(c.sn)]

\* serde's Deserialize of Command: the five fields, each of its type
deserialize_Command_ok(e) ==
    /\ {"id", "shell", "command", "icon", "sn"} \subseteq DOMAIN e
    /\ e.id.t = "str"
    /\ e.shell.t = "str"
    /\ e.command.t = "str"
    /\ e.icon.t = "str"
    /\ e.sn.t = "bool"

Command(e) ==
    [id |-> e.id.v, shell |-> e.shell.v, command |-> e.command.v, icon |-> e.icon.v,
     sn |-> e.sn.v]

\* the settings window is opened (a new App): its task invokes get_commands
\* and sets commands and commands0 to what it deserializes.  An Err of
\* get_commands rejects the promise of invoke, which ends the task; a value
\* that is no Vec<Command> becomes the status.  Opened after a save, the
\* window is compared with the rows saved (buf, saved).
App_open ==
    /\ LET r == load_commands(cfgFile)
           js_value == [i \in 1..Len(r.commands) |-> serialize_UserCommand(r.commands[i])]
           res == \A i \in 1..Len(js_value) : deserialize_Command_ok(js_value[i])
           new_commands == [i \in 1..Len(js_value) |-> Command(js_value[i])]
           after_save == ui.pc = "await_restart"
           opened == [UiIdle EXCEPT !.last = "load",
                                    !.buf = IF after_save THEN ui.buf ELSE <<>>,
                                    !.saved = after_save /\ ui.saved]
       IN  ui' = IF ~r.ok THEN opened
                 ELSE IF res
                 THEN [opened EXCEPT !.commands = new_commands, !.commands0 = new_commands]
                 ELSE [opened EXCEPT !.status = "deserialize failed"]
    /\ UNCHANGED <<execVars, logFile, wr, cfgFile, loaded, reg, app, man, lw>>

\* add_command: a new row with default values
add_command ==
    /\ Editable
    /\ Len(ui.commands) < MaxRows
    /\ ui' = [ui EXCEPT !.commands = Append(@, Command_new),
                        !.status = "Warning( Specify the command and its parameters and test it )",
                        !.last = "add_command"]
    /\ UNCHANGED <<execVars, logFile, wr, cfgFile, loaded, reg, app, man, lw>>

\* the rows after delete_command(index): if index < buf.len() { buf.remove(index) }
\* (rows are counted from 1 here, so the row is there when index <= Len)
delete_command_buf(buf, index) ==
    IF index <= Len(buf)
    THEN SubSeq(buf, 1, index - 1) \o SubSeq(buf, index + 1, Len(buf))
    ELSE buf

\* delete_command(index), a click on Delete of a row
delete_command ==
    /\ Editable
    /\ \E index \in 1..Len(ui.commands) :
        ui' = [ui EXCEPT !.commands = delete_command_buf(@, index),
                        !.status = "Ok( Command deleted )",
                        !.last = "delete_command"]
    /\ UNCHANGED <<execVars, logFile, wr, cfgFile, loaded, reg, app, man, lw>>

\* delete_command(index) with any index, also one past the rows (a row that
\* is gone): nothing is removed and no status is set then
delete_command_index ==
    /\ Editable
    /\ \E index \in 1..(Len(ui.commands) + 1) :
        ui' = [ui EXCEPT !.commands = delete_command_buf(@, index),
                        !.status = IF index <= Len(ui.commands)
                                   THEN "Ok( Command deleted )" ELSE @,
                        !.last = "delete_command",
                        !.prev = ui.commands, !.up = FALSE, !.arg = index]
    /\ UNCHANGED <<execVars, logFile, wr, cfgFile, loaded, reg, app, man, lw>>

\* faulty variant: the row is copied onto its neighbour
move_command_buf_copy(buf, up, n) ==
    LET dir == IF up THEN n - 1 ELSE n + 1
    IN  [buf EXCEPT ![dir] = buf[n]]

\* the rows after move_command(up, n): dir = if up { n-1 } else { n+1 };
\* buf.swap(dir, n)
move_command_buf(buf, up, n) ==
    LET dir == IF up THEN n - 1 ELSE n + 1
    IN  [buf EXCEPT ![dir] = buf[n], ![n] = buf[dir]]

\* move_command(up, n), a click on an order button of row n: the button up
\* is disabled on the first row, the button down on the last
move_command ==
    /\ Editable
    /\ \E up \in BOOLEAN, n \in 1..Len(ui.commands) :
        /\ IF up THEN n # 1 ELSE n # Len(ui.commands)
        /\ ui' = [ui EXCEPT !.commands = move_command_buf(@, up, n),
                            !.status = "Ok( Order updated )",
                            !.last = "move_command",
                            !.prev = ui.commands, !.up = up, !.arg = n]
    /\ UNCHANGED <<execVars, logFile, wr, cfgFile, loaded, reg, app, man, lw>>

\* on:input of the command field of row i: cmds[i].command = value
input_command ==
    /\ Editable
    /\ \E i \in 1..Len(ui.commands), value \in UiTexts :
        ui' = [ui EXCEPT !.commands[i].command = value, !.last = "input"]
    /\ UNCHANGED <<execVars, logFile, wr, cfgFile, loaded, reg, app, man, lw>>

\* let shells = ["sh", "bash", "zsh", "fish"]
shells == <<"sh", "bash", "zsh", "fish">>

\* shells.iter().position(|s| s == &cur): the place of cur among the shells
\* (counted from 1), 0 for None
position(cur) ==
    IF \E i \in 1..Len(shells) : shells[i] = cur
    THEN CHOOSE i \in 1..Len(shells) : shells[i] = cur
    ELSE 0

\* faulty variant: the shell after the last is not the first, the last stays
next_shell_no_wrap(cur) ==
    IF position(cur) = Len(shells) THEN cur ELSE shells[position(cur) + 1]

\* shells[(idx + 1) % shells.len()]
next_shell(cur) == shells[(position(cur) % Len(shells)) + 1]

\* set_shell(n), a click on the shell switch of row n: the next shell of the
\* list; position(..).unwrap() panics on a shell that is not in the list
set_shell ==
    /\ Editable
    /\ \E n \in 1..Len(ui.commands) :
        LET cur == ui.commands[n].shell
        IN  ui' = IF position(cur) = 0
                  THEN [ui EXCEPT !.pc = "panicked", !.last = "set_shell"]
                  ELSE [ui EXCEPT !.commands[n].shell = next_shell(cur),
                                  !.last = "set_shell"]
    /\ UNCHANGED <<execVars, logFile, wr, cfgFile, loaded, reg, app, man, lw>>

\* the row at which the loop of save returns: the first whose command is
\* empty (empties: the rows whose command is) or was seen before; 0 when
\* there is none
first_rejected(buf, empties) ==
    LET bad == {i \in 1..Len(buf) :
                  \/ i \in empties
                  \/ \E j \in 1..(i - 1) : buf[j].command = buf[i].command}
    IN  IF bad = {} THEN 0 ELSE CHOOSE i \in bad : \A j \in bad : i <= j

\* faulty variant: a command of white space only is not taken as empty
save_check_untrimmed(buf) ==
    LET empties == {i \in 1..Len(buf) : buf[i].command = <<>>}
        i == first_rejected(buf, empties)
    IN  IF i = 0 THEN ""
        ELSE IF i \in empties THEN StatusEmpty ELSE StatusNotUnique

\* the checks of save: the status it sets and returns with, "" when the rows
\* pass (cmd.command.trim().is_empty(), !names.insert(cmd.command.clone()))
save_check(buf) ==
    LET empties == {i \in 1..Len(buf) : trim(buf[i].command) = <<>>}
        i == first_rejected(buf, empties)
    IN  IF i = 0 THEN ""
        ELSE IF i \in empties THEN StatusEmpty ELSE StatusNotUnique

\* invoke(cmd, args): the tauri command invoked and its arguments
invoke(name, args) == [cmd |-> name, args |-> args]

\* a click on "Save & Restart": save(commands.get()); rows that fail a check
\* set the status and nothing else; rows that pass are set and the task that
\* save spawns invokes set_commands with them (one save at a time)
save ==
    /\ ui.pc = "idle"
    /\ LET buf == ui.commands
           verdict == save_check(buf)
       IN  ui' = IF verdict # ""
                 THEN [ui EXCEPT !.status = verdict, !.last = "save", !.buf = buf]
                 ELSE [ui EXCEPT !.commands = buf, !.last = "save", !.buf = buf,
                                 !.calls = Append(@, invoke("set_commands", buf)),
                                 !.pc = "await_set_commands"]
    /\ UNCHANGED <<execVars, logFile, wr, cfgFile, loaded, reg, app, man, lw>>

\* invoke("set_commands", args) is carried out: the backend deserializes the
\* rows into Vec<UserCommand>; rows it cannot deserialize reject the promise
\* of invoke, which ends the task of save where it is.  Otherwise
\* set_commands saves them and answers: the status says how, and
\* request_restart is invoked whatever the answer
save_answered ==
    /\ ui.pc = "await_set_commands"
    /\ LET args == [i \in 1..Len(ui.buf) |-> serialize_Command(ui.buf[i])]
       IN  IF \A i \in 1..Len(args) : deserialize_UserCommand_ok(args[i])
           THEN \E io \in IoOutcomes :
                /\ cfgFile' = save_commands(cfgFile,
                                  [i \in 1..Len(args) |-> UserCommand(args[i])], io)
                /\ ui' = [ui EXCEPT !.status = IF io = "ok" THEN "Ok( Commands saved )"
                                               ELSE "Err( Save failed: ioerr )",
                                    !.saved = (io = "ok"),
                                    !.last = "save_answered",
                                    !.calls = Append(@, invoke("request_restart", <<>>)),
                                    !.pc = "await_restart"]
           ELSE /\ ui' = [ui EXCEPT !.pc = "rejected", !.last = "save_answered"]
                /\ UNCHANGED cfgFile
    /\ UNCHANGED <<execVars, logFile, wr, loaded, reg, app, man, lw>>

settings_window ==
    \/ add_command
    \/ delete_command
    \/ input_command
    \/ save
    \/ save_answered

\* the statuses of the reset button and of a close with unsaved changes
StatusResetArmed == "Warn( Click again to reset )"
StatusUnsaved == "Warning( Are there unsaved changes, really quit? )"

\* the window is there and no task of a handler is under way
Interactive == ui.pc = "idle"

\* reset_commands of the window, a click on the reset button: the first
\* click sets reset and the status, a click with reset set spawns the task
\* that invokes reset_commands (pc "await_reset")
App_reset_commands ==
    /\ Interactive
    /\ ui' = IF ~ui.reset
             THEN [ui EXCEPT !.reset = TRUE, !.status = StatusResetArmed,
                             !.last = "reset_commands"]
             ELSE [ui EXCEPT !.pc = "await_reset", !.last = "reset_commands"]
    /\ UNCHANGED <<execVars, logFile, wr, cfgFile, loaded, reg, app, man, lw>>

\* the backend's reset_commands has answered: Ok sets the status and invokes
\* request_restart (pc "await_restart"), Err sets the status only
App_reset_answered ==
    /\ ui.pc = "await_reset"
    /\ \E io \in IoOutcomes :
        LET r == set_config(cfgFile, TRUE, io)
        IN  /\ cfgFile' = r.file
            /\ ui' = IF r.ok
                     THEN [ui EXCEPT !.status = "Ok( Settings reset to default )",
                                     !.pc = "await_restart", !.last = "reset_answered"]
                     ELSE [ui EXCEPT !.status = "Err( Reset failed: ioerr",
                                     !.pc = "idle", !.last = "reset_answered"]
    /\ UNCHANGED <<execVars, logFile, wr, loaded, reg, app, man, lw>>

\* ctrl_window of the window, its first statement: the signal is_maximized
\* after a call with ctrl
ctrl_window_signal(ctrl) == IF ctrl = "max0" THEN "max1" ELSE "max0"

\* ctrl_window of the backend: whether the window is maximized after the
\* action ("max0" => window.maximize(), "max1" => window.unmaximize();
\* minimizing the window and showing it again leaves it as it was)
ctrl_window_maximized(action, was) ==
    CASE action = "max0" -> TRUE
      [] action = "max1" -> FALSE
      [] OTHER -> was

\* faulty variant: a close request is never held back
close_held_back_never(unsaved, status) == FALSE

\* has_unsaved_changes && !status.get().starts_with(&warn): the close request
\* sets the warning and returns
close_held_back(unsaved, status) == unsaved /\ status # StatusUnsaved

\* ctrl_window(ctrl) of the window, called by the handler named by: the
\* signal, for "close" the check of unsaved changes, then the task that
\* invokes the backend's ctrl_window (the user shows a minimized window again
\* before anything else)
ctrl_window(ctrl, by) ==
    /\ Interactive
    /\ LET signalled == [ui EXCEPT !.is_maximized = ctrl_window_signal(ctrl), !.last = by]
       IN  ui' = IF ctrl = "close"
                    /\ close_held_back(ui.commands0 # ui.commands, ui.status)
                 THEN [signalled EXCEPT !.status = StatusUnsaved, !.sent = ""]
                 ELSE [signalled EXCEPT
                          !.sent = ctrl,
                          !.maximized = ctrl_window_maximized(ctrl, @),
                          !.pc = IF ctrl = "close" THEN "closed" ELSE @]
    /\ UNCHANGED <<execVars, logFile, wr, cfgFile, loaded, reg, app, man, lw>>

\* the buttons of the title bar
titlebar_minimize == ctrl_window("min", "minimize")
titlebar_maximize == ctrl_window(ui.is_maximized, "maximize")
titlebar_close == ctrl_window("close", "close")

\* handle_global_keydown: "F11" and "Escape"
handle_global_keydown_F11 ==
    ctrl_window(IF ui.is_maximized = "max1" THEN "max0" ELSE "max1", "F11")
handle_global_keydown_Escape == ctrl_window("close", "Escape")

\* the window's controls, the reset button and the rows
window_controls ==
    \/ add_command
    \/ delete_command
    \/ App_reset_commands
    \/ App_reset_answered
    \/ titlebar_minimize
    \/ titlebar_maximize
    \/ titlebar_close
    \/ handle_global_keydown_F11
    \/ handle_global_keydown_Escape

\* the rows of the table put in order and deleted
rows_order ==
    \/ add_command
    \/ input_command
    \/ move_command
    \/ delete_command_index

\* the shells of the rows: the window is opened on a document, rows are
\* added and their shell is switched
rows_shell ==
    \/ edit_document_shell
    \/ App_open
    \/ add_command
    \/ set_shell

\* the rows of the window on their way to commands.toml and back: the window
\* is opened, rows are added and edited, saved, and the window is opened again
settings_exchange ==
    \/ App_open
    \/ add_command
    \/ input_command
    \/ save
    \/ save_answered

----------------------------------------------------------------------------
(* One call of run_command *)

Init ==
    /\ pc = "idle"
    /\ caller = "tray"
    /\ cmd = <<>>
    /\ sn = FALSE
    /\ child = NoChild
    /\ childState = "none"
    /\ now = 0
    /\ killedAt = -1
    /\ result = None
    /\ message = <<>>
    /\ events = <<>>
    /\ ret = None
    /\ retAt = -1
    /\ notifier = TRUE
    /\ logFile = AbsentFile
    /\ wr = [t \in Writers |-> IdleWriter]
    /\ cfgFile = AbsentCfg
    /\ loaded = NotLoaded
    /\ reg = NoCall
    /\ app = AppOff
    /\ man = ManIdle
    /\ lw = NoWrite
    /\ ui = UiIdle

Next == execute_command \/ run_command

Spec == Init /\ [][Next]_vars

\* the threads' appends to the log, interleaved
NextLog == LineLimitedFile_write_steps

SpecLog == Init /\ [][NextLog]_vars

\* the command document: edited by hand, loaded by get_commands
NextCfg == edit_document \/ get_commands

SpecCfg == Init /\ [][NextCfg]_vars

\* the command document over the runs of the application: written by hand in
\* the schema of UserCommand, created by set_config, loaded at the start,
\* saved and reset from the settings window
NextReg ==
    \/ edit_document_canonical
    \/ get_commands
    \/ set_commands
    \/ reset_commands
    \/ run

SpecReg == Init /\ [][NextReg]_vars

\* the tray: the document as the user wrote it, the start of the application,
\* clicks on the items of the commands
NextTray ==
    \/ edit_document_canonical
    \/ run
    \/ on_menu_event_cmd

SpecTray == Init /\ [][NextTray]_vars

\* the settings window
NextUi == settings_window

SpecUi == Init /\ [][NextUi]_vars

\* hand-edited documents, whose tables may name a shell, the start of the
\* application on them and the clicks on the tray items
NextShell == edit_document_shell \/ run \/ on_menu_event_cmd

SpecShell == Init /\ [][NextShell]_vars

\* the title bar, the keys and the reset button of the settings window
NextWin == window_controls

SpecWin == Init /\ [][NextWin]_vars

\* the order buttons and Delete on rows that were added and typed into
NextRows == rows_order

SpecRows == Init /\ [][NextRows]_vars

\* the shell switch on rows that were loaded or added
NextShells == rows_shell

SpecShells == Init /\ [][NextShells]_vars

\* the settings window and the command document it saves and loads
NextSync == settings_exchange

SpecSync == Init /\ [][NextSync]_vars

\* writes to a log file, one after the other
NextWrite == log_found \/ LineLimitedFile_write_call

SpecWrite == Init /\ [][NextWrite]_vars

\* one call of get_man
NextMan == get_man

SpecMan == Init /\ [][NextMan]_vars

\* the call is made and the thread that runs get_man goes on whenever it can
LiveSpecMan == SpecMan /\ WF_vars(NextMan)

----------------------------------------------------------------------------
(* Properties of execute_command and run_command, under Spec *)

\* execute_command has returned
Returned == retAt >= 0

\* the direct child was spawned and never exits on its own
NeverExits == child.spawns /\ ~child.exits

\* the loop's sleeps and the grace sleep: how many sleeps a timed-out call makes
TimedOutSleeps == TimeoutMs \div CheckIntervalMs + 1

\* try_wait reported the exit (the call went through wait_with_output)
ObservedExit == childState = "reaped" /\ killedAt < 0

\* some token of the child's stdout / stderr occurs in text
HoldsStdout(text) == \E t \in {"o", "bad", "rep"} : Contains(text, t)
HoldsStderr(text) == \E t \in {"e", "f"} : Contains(text, t)

InExecute ==
    pc \in {"spawn", "loop", "try_wait", "sleep", "collect", "kill", "grace", "wait"}

\* C1: a call whose direct child never exits on its own returns the timeout
\* outcome, no later than timeout + grace after the call (plus what its
\* sleeps ran over) and before timeout + grace + one poll interval (700 ms);
\* while it runs, its clock is never past that bound.
C1_TimeoutWithinBound ==
    NeverExits =>
        /\ Returned =>
            /\ result = Err(TimeoutNotice)
            /\ retAt <= TimeoutMs + GraceMs + TimedOutSleeps * MaxOvershoot
            /\ retAt < TimeoutMs + GraceMs + CheckIntervalMs
        /\ (InExecute /\ pc # "spawn") => now < TimeoutMs + GraceMs + CheckIntervalMs

C1_Witness ==
    NeverExits /\ Returned /\ result.text = TimeoutNotice /\ retAt >= TimeoutMs + GraceMs

\* C2: every call returns within timeout + grace (plus what its sleeps ran
\* over), also when a background descendant keeps the pipes open.
C2_EveryCallWithinBudget ==
    Returned => retAt <= TimeoutMs + GraceMs + TimedOutSleeps * MaxOvershoot

\* C3 as stated: once the exit was observed, the value returned is Ok(stdout)
\* exactly when the status is success, and Err(stderr) otherwise.
C3_OutcomeByStatusAlone ==
    (ObservedExit /\ Returned) =>
        /\ result.ok <=> child.success
        /\ child.success => result = Ok(from_utf8_lossy(child.out))
        /\ ~child.success => result = Err(from_utf8_lossy(child.err))

\* C3 amended: once the exit was observed, the value returned is the
\* "Failed to get output" error if collecting the output failed, and
\* otherwise Ok(stdout) exactly when the status is success and Err(stderr)
\* when it is not; no stdout in a failure, no stderr in a success.
C3_OutcomeByStatusUnlessCollectFails ==
    (ObservedExit /\ Returned) =>
        /\ \/ result = CollectFailure
           \/ /\ result.ok <=> child.success
              /\ child.success => result = Ok(from_utf8_lossy(child.out))
              /\ ~child.success => result = Err(from_utf8_lossy(child.err))
        /\ result.ok => ~HoldsStderr(result.text)
        /\ ~result.ok => ~HoldsStdout(result.text)

C3_Witness ==
    /\ ObservedExit /\ Returned
    /\ child.out # <<>> /\ child.err # <<>>
    /\ ~child.success
    /\ result = Err(from_utf8_lossy(child.err))

\* C4: on timeout the kill is sent first, the grace period passes, and only
\* then the call returns; what it returns is the fixed notice alone, with
\* nothing of what the child wrote.
C4_KillGraceNotice ==
    /\ pc \in {"grace", "wait"} => (killedAt >= 0 /\ childState = "killed" /\ ~Returned)
    /\ (killedAt >= 0 /\ Returned) =>
        /\ retAt >= killedAt + GraceMs
        /\ result = Err(TimeoutNotice)
        /\ ~HoldsStdout(result.text) /\ ~HoldsStderr(result.text)
    /\ (Returned /\ Contains(result.text, TimeoutNotice[1])) => killedAt >= 0

C4_Witness ==
    /\ killedAt >= 0 /\ Returned
    /\ child.out # <<>> /\ child.err # <<>>
    /\ result.text = TimeoutNotice

\* C5: a spawn failure comes back from execute_command as Err(text); whatever
\* the command did (spawn failure, timeout, non-zero exit, success),
\* run_command and run_test hand back Ok(message).
C5_FailuresBecomeText ==
    /\ (pc \in {"log", "notify", "return", "done"} /\ ~child.spawns) =>
            (~result.ok /\ result.text # <<>> /\ result = SpawnFailure)
    /\ pc = "done" => (ret.ok /\ ret.text = message /\ message # <<>>)

C5_Witness ==
    pc = "done" /\ ~child.spawns /\ caller = "run_test" /\ ret.ok /\ ~result.ok

\* the direct child exits on its own before the timeout has passed
ExitsBeforeTimeout == ChildExited(TimeoutMs - 1)

\* C24: when the child exits before the elapsed time exceeds the timeout, also
\* between the last poll and the timeout, execute_command returns the exit
\* outcome, Ok(stdout) or Err(stderr), and not the timeout notice (unless
\* waiting for the child or collecting its output failed).
C24_ExitBeforeTimeoutGivesExitOutcome ==
    (Returned /\ ExitsBeforeTimeout /\ result \notin {TryWaitFailure, CollectFailure}) =>
        /\ result # Err(TimeoutNotice)
        /\ result = ExitOutcome(child.success, child.out, child.err)

\* the direct child is no longer running at elapsed time t: it exited on its
\* own, or the kill was sent
Terminated(t) == (killedAt >= 0 /\ killedAt <= t) \/ ChildExited(t)

\* C25: on every return of execute_command after a spawn that succeeded
\* (exit observed, output not collected, try_wait error, timeout) the direct
\* child has terminated and is no zombie: it was reaped by try_wait or wait,
\* or was gone already when try_wait failed.  Stated of the state in which
\* execute_command has just returned (pc = "log"): run_command changes
\* nothing of the child after it.
C25_ChildReapedOnEveryReturn ==
    (pc = "log" /\ Returned /\ child.spawns) =>
        /\ Terminated(retAt)
        /\ childState \in {"reaped", "gone"}
        /\ childState = "gone" <=> result = TryWaitFailure

C25_Witness ==
    /\ Returned /\ NeverExits /\ killedAt >= 0 /\ childState = "reaped"
    /\ result = Err(TimeoutNotice)

\* the command would exit with success well within the timeout: by the time
\* of the poll before the last
WouldSucceedInTime ==
    child.spawns /\ child.exits /\ child.success
        /\ child.exitAt <= TimeoutMs - 2 * CheckIntervalMs

\* C29: a command that would exit with success well within the timeout
\* yields Ok with all of its stdout, however much it writes (unless waiting
\* for it or collecting its output failed).
C29_AllOutputCaptured ==
    (Returned /\ WouldSucceedInTime /\ result \notin {TryWaitFailure, CollectFailure}) =>
        result = Ok(from_utf8_lossy(child.out))

\* C8: the summary record run_command writes occupies exactly one line of
\* the log file.
C8_RecordIsOneLine ==
    pc \in {"notify", "return", "done"} =>
        /\ Len(lines(write_message(events[1].text))) = 1
        /\ (Len(events) = 1 /\ events[1].io = "ok") => Len(lines(logFile.content)) = 1

\* C9: once the command has been executed, run_command has pushed its summary
\* record to the log, on every path and whatever sn is, and nothing was
\* notified before that; when the write of the record succeeded, the file
\* starts with it.
C9_LogOnEveryPathBeforeNotify ==
    /\ pc \in {"idle", "log"} \/ InExecute => events = <<>>
    /\ pc \in {"notify", "return", "done"} =>
        /\ Len(events) >= 1
        /\ events[1].kind = "log"
        /\ events[1].text[3] = (IF result.ok THEN "INFO" ELSE "ERROR")
        /\ \A i \in 1..Len(cmd) : events[1].text[7 + i] = cmd[i]
        /\ (\A i \in 1..Len(events) : events[i].kind = "log" => events[i].io = "ok") =>
            /\ logFile.exists
            /\ LET rec == lines(write_message(events[1].text))
               IN  SubSeq(lines(logFile.content), 1, Len(rec)) = rec
        /\ \A i \in 1..Len(events) : events[i].kind = "notify" => i > 1

C9_Witness ==
    /\ pc = "done" /\ ~sn /\ result.ok /\ Len(events) = 1 /\ events[1].kind = "log"
    /\ events[1].io = "ok" /\ logFile.exists

\* C6: K sequential writes from an absent or empty file leave exactly
\* min(K, max_lines) lines, the last min(K, max_lines) messages in the order
\* written.  (All the appends of one run_command call are sequential; the
\* writes meant are those that succeed.)
C6_SequentialWritesKeepLastK ==
    LET logs == SelectSeq(events, LAMBDA e : e.kind = "log")
        K == Len(logs)
        n == Min(K, max_lines)
        ls == lines(logFile.content)
    IN  (\A i \in 1..K : logs[i].io = "ok") =>
            /\ Len(ls) = n
            /\ \A i \in 1..n : ls[i] = write_message(logs[K - n + i].text)

\* send_notification was called: notify-send was run, or its absence logged
NotifyEvent(e) ==
    \/ e.kind = "notify"
    \/ e.kind = "log" /\ e.text[5] = "notify-send not found. Notification skipped:"

Dispatched == \E i \in 1..Len(events) : NotifyEvent(events[i])

\* C14: run_command calls send_notification exactly when the execution
\* failed (timed out, could not be spawned, exited with a failure) or sn is
\* true; nothing is dispatched before the decision.
C14_NotifyIffFailedOrSn ==
    /\ pc \in {"return", "done"} => (Dispatched <=> (~result.ok \/ sn))
    /\ pc \notin {"return", "done"} => ~Dispatched

C14_Witness ==
    pc = "done" /\ ~sn /\ result = Err(TimeoutNotice) /\ Dispatched

\* C15: the summary handed to notify-send is the first line of the message,
\* the body is the rest of the message when that has at most 200 chars, and
\* the body handed over never has more than 200 chars.
C15_BodyWithinLimit ==
    \A i \in 1..Len(events) :
        events[i].kind = "notify" =>
            LET rest == SubSeq(message, Len(events[i].summary) + 1, Len(message))
            IN  /\ events[i].summary = lines(message)[1]
                /\ chars_count(rest) <= BodyLimit => events[i].body = rest
                /\ chars_count(events[i].body) <= BodyLimit

\* notify-send was not found, or it was run and did not show the notification
NotifierMissing ==
    /\ Dispatched
    /\ \/ ~notifier
       \/ \E i \in 1..Len(events) : events[i].kind = "notify" /\ ~events[i].shown

\* C16: when notify-send is absent or fails, run_command (and run_test)
\* returns Ok(message) with the message of the execution all the same, and
\* when it is absent the last thing pushed to the log is the record of it,
\* which ends the file when its write succeeded.
C16_MissingNotifierIsLogged ==
    (pc = "done" /\ NotifierMissing) =>
        /\ ret = Ok(format_message(result, cmd))
        /\ ~notifier =>
            LET e == events[Len(events)]
                rec == lines(write_message(notify_missing_record(
                            split_summary(message).summary,
                            limited_body(split_summary(message).body))))
                ls == lines(logFile.content)
            IN  /\ e.kind = "log"
                /\ e.text[3] = "ERROR"
                /\ lines(write_message(e.text)) = rec
                /\ e.io = "ok" =>
                    /\ Len(ls) >= Len(rec)
                    /\ SubSeq(ls, Len(ls) - Len(rec) + 1, Len(ls)) = rec

C16_Witness ==
    /\ pc = "done" /\ ~notifier /\ Dispatched /\ result.ok /\ ret.ok
    /\ events[Len(events)].io = "ok"

\* some write to the log made by the call failed
LogWriteFailed ==
    \E i \in 1..Len(events) : events[i].kind = "log" /\ events[i].io # "ok"

\* C21: a log write that fails (the file cannot be read, opened or written)
\* does not end the call and changes nothing of its result: run_command goes
\* on to the notification, decides it by the outcome and sn alone, and returns
\* Ok(message) with the message of the execution.
C21_LogFailureChangesNothing ==
    LogWriteFailed =>
        /\ pc \in {"notify", "return", "done"}
        /\ pc \in {"return", "done"} => (Dispatched <=> should_notify(result.ok, sn))
        /\ pc = "done" => ret = Ok(format_message(result, cmd))

C21_Witness ==
    /\ pc = "done" /\ events[1].io = "write_fails" /\ logFile.exists
    /\ result.ok /\ sn /\ Dispatched /\ ret = Ok(message)

----------------------------------------------------------------------------
(* Properties of the concurrent appends, under SpecLog *)

\* C7: when no append is under way, every record whose write has returned is
\* a line of the file, and the file holds min(N, max_lines) lines for the N
\* records written.
C7_ConcurrentAppendsAllSurvive ==
    (\A t \in Writers : wr[t].pc = "idle") =>
        LET ls == lines(logFile.content)
        IN  /\ Len(ls) = Min(Cardinality(Written), max_lines)
            /\ \A w \in Written :
                  \E i \in 1..Len(ls) : ls[i] = write_message(LogBuf(w[1], w[2]))

\* C22: an append replaces the contents of the file in one atomic step: once
\* a write has returned the file holds records, and from then on nobody who
\* reads it, at any instant of a later append, finds it empty.
C22_AppendIsAtomicReplace ==
    Written # {} => (logFile.exists /\ logFile.content # <<>>)

----------------------------------------------------------------------------
(* Properties of whole writes, under SpecWrite *)

\* C27: after every write that completed the file holds at most max_lines
\* lines, whatever it held before (more than max_lines lines too) and whatever
\* the message (empty, or with line breaks in it); it holds the old contents
\* and the message when these have no more than max_lines lines.
C27_AtMostMaxLinesAfterWrite ==
    (lw.done /\ lw.io = "ok") =>
        LET all == write_content(write_read(lw.before), write_message(lw.buf))
        IN  /\ Len(lines(logFile.content)) <= max_lines
            /\ Len(lines(all)) <= max_lines => logFile.content = all

C27_Witness ==
    /\ lw.done /\ lw.io = "ok"
    /\ Len(lines(lw.before.content)) = max_lines + MaxExcess
    /\ Len(lines(write_message(lw.buf))) = 3
    /\ Len(lines(logFile.content)) = max_lines

----------------------------------------------------------------------------
(* Properties of the command document, under SpecCfg *)

\* the i-th table breaks one of the four rules of the specification
InvalidEntry(es, i) ==
    \/ es[i].command.v = <<>>
    \/ \E j \in 1..Len(es) : j # i /\ es[j].command.v = es[i].command.v
    \/ Len(es[i].icon.v) > IconLimit
    \/ ("shell" \in DOMAIN es[i] /\ es[i].shell.v \notin Shells)

\* C10: for a document that is there and holds well-formed tables,
\* load_commands fails exactly when some table has an empty command, a
\* command equal to another's, an icon of more than 8 scalars or a shell
\* outside the whitelist, and then returns no commands.
C10_LoadFailsIffInvalidEntry ==
    (loaded.done /\ cfgFile.exists /\ from_str_ok(cfgFile.doc)) =>
        /\ ~loaded.ok <=>
              \E i \in 1..Len(cfgFile.doc.entries) : InvalidEntry(cfgFile.doc.entries, i)
        /\ ~loaded.ok => loaded.commands = <<>>

----------------------------------------------------------------------------
(* Properties of saving, resetting and starting, under SpecReg *)

\* a command set that keeps the rules of the specification
ValidSet(cs) ==
    \A i \in 1..Len(cs) :
        /\ cs[i].command # <<>>
        /\ \A j \in 1..Len(cs) : j # i => cs[j].command # cs[i].command
        /\ Len(cs[i].icon) <= IconLimit

\* how often the invocation x occurs in cs
Occurrences(cs, x) == Cardinality({i \in 1..Len(cs) : cs[i].command = x})

C12_SaveIsWriteThrough ==
    (reg.op = "set_commands" /\ reg.io = "ok") =>
        /\ reg.ok /\ reg.text = "Commands saved"
        /\ cfgFile.exists
        /\ cfgFile.doc.toml /\ cfgFile.doc.key = "commands"
        /\ Len(cfgFile.doc.entries) = Len(reg.arg)
        /\ \A i \in 1..Len(reg.arg) :
              /\ deserialize_UserCommand_ok(cfgFile.doc.entries[i])
              /\ UserCommand(cfgFile.doc.entries[i]) = reg.arg[i]

C12_Witness ==
    /\ reg.op = "set_commands" /\ reg.ok
    /\ Len(reg.arg) = 2 /\ reg.arg[1] = CmdEmpty /\ reg.arg[2] = CmdEmpty
    /\ Len(cfgFile.doc.entries) = 2

\* C13: set_config without force on a document that exists leaves it as it
\* is and returns "File exists"; with force, or with no document, it writes
\* the default content and returns "File created" (when the file can be
\* written).
C13_SetConfigKeepsOrRewrites ==
    reg.op \in {"set_config", "reset_commands"} =>
        IF ~reg.force /\ reg.before.exists
        THEN cfgFile = reg.before /\ reg.ok /\ reg.inner = "File exists"
        ELSE reg.io = "ok" =>
                /\ cfgFile = CfgFile(DefaultDocument)
                /\ reg.ok /\ reg.inner = "File created"

C13_Witness ==
    /\ reg.op = "set_config" /\ reg.before.exists
    /\ reg.before.doc # DefaultDocument /\ Len(reg.before.doc.entries) = 2
    /\ cfgFile = reg.before

\* the step of run() that follows set_config(None) / that follows load_commands
SetConfigStep == app.pc = "set_config" /\ app'.pc # "set_config"
LoadStep == app.pc = "load_commands" /\ app'.pc # "load_commands"

\* C20: when set_config fails, or the document cannot be read or parsed, the
\* process exits with code 1 and has no tray; the tray is built only after a
\* load that succeeded, from the commands it returned.
C20_StartFailsBeforeTray ==
    /\ [](/\ app.pc = "exited" => (app.code = 1 /\ app.tray = <<>>)
          /\ app.pc \in {"set_config", "load_commands", "setup"} => app.tray = <<>>
          /\ app.pc = "running" =>
                app.tray = [i \in 1..Len(app.commands) |-> menu_item(app.commands[i])])
    /\ [][/\ (SetConfigStep /\ ~reg'.ok) => (app'.pc = "exited" /\ app'.code = 1)
          /\ (LoadStep /\ ~(cfgFile.exists /\ from_str_ok(cfgFile.doc))) =>
                (app'.pc = "exited" /\ app'.code = 1)
          /\ (LoadStep /\ app'.pc # "exited") =>
                /\ app'.pc = "setup"
                /\ loaded'.ok
                /\ app'.commands = loaded'.commands
                /\ Len(app'.commands) = Len(cfgFile.doc.entries)]_vars

\* the first start: the default document was created and cannot be loaded
C20_Witness ==
    app.pc = "exited" /\ reg.op = "set_config" /\ reg.inner = "File created" /\ loaded.done

\* C26: the default document that set_config writes (first start, reset) is
\* accepted by load_commands, which yields the default command set: a start
\* on it does not exit.
C26_DefaultDocumentLoads ==
    (cfgFile = CfgFile(DefaultDocument) /\ loaded.done) =>
        /\ loaded.ok
        /\ Len(loaded.commands) = Len(DefaultDocument.entries)
        /\ app.pc # "exited"

----------------------------------------------------------------------------
(* Properties of the tray menu, under SpecTray *)

\* an item of the tray menu was clicked
Clicked == app.pc = "running" /\ app.click.item > 0

\* C23: a click on the tray item of a loaded command runs the invocation of
\* that very command, as it is, whatever it holds ("cmd_" too).
C23_ClickRunsThatCommand ==
    Clicked =>
        /\ app.click.ran
        /\ app.click.cmd = app.commands[app.click.item].command

\* the table of the loaded document from which the clicked item was made
ClickedEntry == cfgFile.doc.entries[app.click.item]

\* C32: a command run from the tray is run by the interpreter that the shell
\* field of its entry names (sh, bash, zsh or fish; sh when the entry has no
\* shell field).  The document is the one that was loaded.
C32_RunByNamedShell ==
    (Clicked /\ app.click.ran /\ loaded.ok) =>
        IF "shell" \in DOMAIN ClickedEntry
        THEN ClickedEntry.shell.v \in Shells =>
                app.click.program = ClickedEntry.shell.v
        ELSE app.click.program = "sh"

----------------------------------------------------------------------------
(* Properties of the settings window, under SpecUi *)

\* some row has a command that is empty after trimming, or two rows have the
\* same command
RejectedSet(rows) ==
    \/ \E i \in 1..Len(rows) : trim(rows[i].command) = <<>>
    \/ \E i, j \in 1..Len(rows) : i # j /\ rows[i].command = rows[j].command

\* C30: save on rows of which one has an empty command (after trimming) or
\* two have the same sets an Err status, leaves the rows as they are and
\* invokes nothing; set_commands is invoked only with rows that pass both
\* checks, and request_restart only after it.
C30_SaveRejectsEmptyAndRepeated ==
    /\ ui.last = "save" =>
          IF RejectedSet(ui.buf)
          THEN /\ ui.status \in {StatusEmpty, StatusNotUnique}
               /\ ui.commands = ui.buf
               /\ ui.calls = <<>>
               /\ ui.pc = "idle"
          ELSE /\ ui.pc \in {"await_set_commands", "await_restart"}
               /\ ui.calls[1] = invoke("set_commands", ui.buf)
    /\ \A k \in 1..Len(ui.calls) :
          /\ ui.calls[k].cmd = "set_commands" => ~RejectedSet(ui.calls[k].args)
          /\ ui.calls[k].cmd = "request_restart" =>
                (k > 1 /\ ui.calls[k - 1].cmd = "set_commands")

C30_Witness ==
    /\ ui.last = "save" /\ ui.pc = "idle" /\ Len(ui.buf) = 2
    /\ ui.buf[1].command = <<"c">> /\ ui.buf[2].command = <<"sp">>
    /\ ui.status = StatusEmpty /\ ui.calls = <<>>

\* C33: the reset of the window takes two clicks in a row: the task that
\* invokes reset_commands is spawned only by a click on the reset button that
\* comes right after another click on it, and a click that comes after
\* anything else only arms the button and shows the warning.
C33_ResetTakesTwoClicksInARow ==
    [][ /\ ui'.pc = "await_reset" => ui.last = "reset_commands"
        /\ (ui'.last = "reset_commands" /\ ui.last # "reset_commands") =>
              (ui'.pc = "idle" /\ ui'.reset /\ ui'.status = StatusResetArmed) ]_vars

\* the rows differ from the rows loaded
has_unsaved_changes == ui.commands0 # ui.commands

\* C34: a close request (the close button, Escape) made with unsaved changes
\* while the status is not the unsaved-changes warning only sets the warning
\* and hands no "close" to the backend; a close request made with unsaved
\* changes closes the window only when the warning is the status shown; one
\* made without unsaved changes hands "close" to the backend at once.
C34_CloseAsksOnceWhenUnsaved ==
    [][ ui'.last \in {"close", "Escape"} =>
          /\ (has_unsaved_changes /\ ui.status # StatusUnsaved) =>
                (ui'.pc = "idle" /\ ui'.sent = "" /\ ui'.status = StatusUnsaved)
          /\ (has_unsaved_changes /\ ui'.pc = "closed") => ui.status = StatusUnsaved
          /\ ~has_unsaved_changes => (ui'.pc = "closed" /\ ui'.sent = "close") ]_vars

C34_Witness ==
    /\ ui.pc = "closed" /\ ui.last \in {"close", "Escape"} /\ ui.sent = "close"
    /\ ui.commands0 # ui.commands /\ ui.status = StatusUnsaved

\* the signal is_maximized says what the window is
SignalAgrees == ui.pc # "closed" => ((ui.is_maximized = "max1") <=> ui.maximized)

\* C35: is_maximized agrees with the window after every action of the title
\* bar and of the keys, and every press of the maximize button and of F11
\* turns a window that is not maximized into a maximized one and back.
C35_MaximizedSignalAgrees ==
    /\ []SignalAgrees
    /\ [][ ui'.last \in {"maximize", "F11"} => ui'.maximized # ui.maximized ]_vars

\* how often the row r is among rows
Occurs(rows, r) == Cardinality({i \in 1..Len(rows) : rows[i] = r})

ShellAfter(sh) ==
    CASE sh = "sh" -> "bash"
      [] sh = "bash" -> "zsh"
      [] sh = "zsh" -> "fish"
      [] sh = "fish" -> "sh"

\* the shell of every row is one of the four, and set_shell has not panicked
ShellsListed ==
    /\ \A i \in 1..Len(ui.commands) : ui.commands[i].shell \in Shells
    /\ ui.pc # "panicked"

\* C37: whatever was loaded, added and switched, the shell of every row is
\* one of sh, bash, zsh and fish; set_shell puts the shell of its row one
\* step on in the cycle sh -> bash -> zsh -> fish -> sh, leaves the other
\* fields of the row and the other rows as they are, and does not panic.
C37_ShellStaysListedAndCycles ==
    /\ []ShellsListed
    /\ [][ (ui' # ui /\ ui'.last = "set_shell") =>
              \E n \in 1..Len(ui.commands) :
                  ui'.commands =
                      [ui.commands EXCEPT ![n].shell = ShellAfter(ui.commands[n].shell)] ]_vars

C37_Witness ==
    /\ ui.last = "set_shell" /\ Len(ui.commands) = 2
    /\ ui.commands[1].shell = "sh" /\ ui.commands[2].shell = "fish"
    /\ ui.status = "Warning( Specify the command and its parameters and test it )"

\* C31: the rows that the settings window saves are accepted by set_commands,
\* and when they were saved and the window is opened again, the rows loaded
\* are the rows saved: the same entries in the same order, every field (id,
\* shell, command, icon, sn) as it was.
C31_SavedRowsComeBack ==
    /\ ui.pc # "rejected"
    /\ (ui.last = "load" /\ ui.saved) => ui.commands = ui.buf

----------------------------------------------------------------------------
(* Properties of get_man, under SpecMan *)

\* the index of the quote that closes the attribute value opened at k
RECURSIVE closing_quote(_, _)
closing_quote(s, k) ==
    IF k > Len(s) THEN Len(s) + 1
    ELSE IF s[k] = "dq" THEN k
    ELSE closing_quote(s, k + 1)

\* a token of the markup the passes insert
IsMarkup(t) == t \in {"<a", "</a>", "<span", "</span>", "href=", "class=", "dq"}

\* C17: the passes run in the order link, flag token, upper-case word, and
\* the later passes leave the elements the link pass inserted as they are:
\* every <a is followed by its href, and no markup is put inside the value
\* of an href.
C17_LaterPassesSpareMarkup ==
    man.handed =>
        LET out == man.ret.text
        IN  /\ out = upper_pass(dash_pass(link_pass(man.raw)))
            /\ \A i \in 1..Len(out) :
                  /\ out[i] = "<a" =>
                        (i + 2 <= Len(out) /\ out[i + 1] = "sp" /\ out[i + 2] = "href=")
                  /\ out[i] = "href=" =>
                        \A j \in (i + 2)..(closing_quote(out, i + 2) - 1) : ~IsMarkup(out[j])

\* C18: the text handed to process_man_output has at most max_chars chars,
\* whether it was taken from stdout or from stderr.
C18_HandedTextWithinMaxChars ==
    man.handed => chars_count(man.raw) <= max_chars

\* the variant tried in the k-th place
Candidate(c, k) ==
    IF k <= Len(help_flags) THEN c \o <<help_flags[k]>>
    ELSE <<"MANPAGER=cat man", "sp">> \o c

\* the k-th variant tried gave a help of MIN_HELP_LENGTH bytes or more
LongEnough(k) == man.tried[k].ok /\ man.tried[k].long

\* C19: for a query without a help flag the variants are run in the order of
\* help_flags, the man page last; the first whose output has 50 bytes or more
\* ends the search and its processed output is returned; the "No valid help"
\* error is returned only when all eleven were run and none was long enough.
C19_FirstLongEnoughVariantWins ==
    (man.pc \in {"variants", "done"} /\ trim(man.cmd) # <<>> /\ ~has_help_flag(man.cmd)) =>
        LET n == Len(man.tried)
        IN  /\ n <= Len(help_flags) + 1
            /\ \A k \in 1..n : man.tried[k].variant = Candidate(man.cmd, k)
            /\ \A k \in 1..(n - 1) : ~LongEnough(k)
            /\ man.pc = "variants" => (n = man.i - 1 /\ (n > 0 => ~LongEnough(n)))
            /\ (man.pc = "done" /\ man.ret.ok) =>
                  /\ n >= 1 /\ LongEnough(n)
                  /\ str_len(man.raw) >= MIN_HELP_LENGTH
                  /\ man.ret = Ok(process_man_output(man.raw))
            /\ (man.pc = "done" /\ ~man.ret.ok) =>
                  /\ n = Len(help_flags) + 1
                  /\ ~LongEnough(n)
                  /\ man.ret.text[1] = "No valid help found for"

C19_Witness ==
    /\ man.pc = "done" /\ man.ret.ok /\ Len(man.tried) = 3
    /\ man.tried[1].ok /\ ~man.tried[2].ok
    /\ str_len(man.raw) = MIN_HELP_LENGTH

\* C28: every call of get_man returns, with the help text or with an error,
\* also when a candidate that read_man runs never exits on its own.
C28_GetManReturns == (man.pc # "idle") ~> (man.pc = "done")

====
